---- MODULE Spec2Model ----
(***************************************************************************)
(* Model of prompt_toolkit/layout/processors.py: the line transformation   *)
(* pipeline (processors), their position mappings, the merge of processors *)
(* and the positions cache of the matching-bracket processor.              *)
(*                                                                         *)
(* Representation.                                                         *)
(*   text       a sequence of one-character strings                        *)
(*   style      a sequence of style strings; Python's `style + ' x '` is   *)
(*              Append(style, " x ")                                       *)
(*   fragment   <<style, text>>                                            *)
(*   mapping    the closures source_to_display / display_to_source, as the *)
(*              data they capture plus a tag naming their code; Call       *)
(*              evaluates them.  A call yields [ok, v, exc]: the value     *)
(*              returned, or the exception raised.                         *)
(***************************************************************************)
EXTENDS Integers, Sequences, FiniteSets, TLC

VARIABLES
    ti,         \* the TransformationInput of the current render call
    proc,       \* the processor instance the call is made on
    out,        \* the Transformation returned by the last apply_transformation
    pc,         \* "new" (nothing constructed), "ready" (constructed), "applied"
    cache,      \* _positions_cache of the bracket processor: [data, keys]
    scanned,    \* whether the last apply ran _get_positions_to_highlight
    heap,       \* the fragment list objects: heap[r] is the items of list r
    calls,      \* the apply_transformation calls made during the last render:
                \* <<r, items, kind>>, the list passed in, its items at the
                \* call and the class of the processor called
    passes      \* the nested render passes started during the last render, in
                \* the order they were started: [by, control, lineno, depth]

vars == <<ti, proc, out, pc, cache, scanned, heap, calls, passes>>

----------------------------------------------------------------------------
(* Bounds *)

MaxLen == 3          \* longest input line, in characters
MaxOff == 6          \* offsets 0..MaxOff are passed to the mapping functions
MaxPrefix == 2       \* longest text inserted by BeforeInput
MaxTabstop == 4      \* widest tab stop a TabsProcessor is constructed with
MaxRender == 2       \* app.render_counter counts up to MaxRender

----------------------------------------------------------------------------
(* Python helpers *)

None == [kind |-> "None"]

Ok(v) == [ok |-> TRUE, v |-> v, exc |-> ""]
Raise(e) == [ok |-> FALSE, v |-> 0, exc |-> e]

Min(a, b) == IF a < b THEN a ELSE b
Max(a, b) == IF a > b THEN a ELSE b

\* Python's a % b for b # 0: the result has the sign of b.
PyMod(a, b) == IF b > 0 THEN a % b ELSE -((-a) % (-b))

\* Python's c * n for a one-character string c: empty when n <= 0.
RECURSIVE Repeat(_, _)
Repeat(c, n) == IF n <= 0 THEN <<>> ELSE <<c>> \o Repeat(c, n - 1)

Reverse(s) == [k \in 1..Len(s) |-> s[Len(s) + 1 - k]]

\* Python's lst[i] for reading: negative i counts from the end.
ListIndex(lst, i) ==
    IF i >= 0 /\ i < Len(lst) THEN Ok(i + 1)
    ELSE IF i < 0 /\ -i <= Len(lst) THEN Ok(Len(lst) + i + 1)
    ELSE Raise("IndexError")

----------------------------------------------------------------------------
(* layout/utils.py *)

RECURSIVE fragment_list_len(_)
fragment_list_len(fragments) ==
    IF fragments = <<>> THEN 0
    ELSE Len(fragments[1][2]) + fragment_list_len(Tail(fragments))

RECURSIVE fragment_list_to_text(_)
fragment_list_to_text(fragments) ==
    IF fragments = <<>> THEN <<>>
    ELSE fragments[1][2] \o fragment_list_to_text(Tail(fragments))

RECURSIVE explode_text_fragments(_)
explode_text_fragments(fragments) ==
    IF fragments = <<>> THEN <<>>
    ELSE [k \in 1..Len(fragments[1][2]) |-> <<fragments[1][1], <<fragments[1][2][k]>>>>]
         \o explode_text_fragments(Tail(fragments))

----------------------------------------------------------------------------
(* Mapping functions (closures) *)

Identity == [f |-> "identity"]
ShiftBy(n) == [f |-> "shift", n |-> n]
UnshiftBy(n) == [f |-> "unshift", n |-> n]
TabsS2D(pm) == [f |-> "tabs_s2d", pm |-> pm]
TabsD2S(pm) == [f |-> "tabs_d2s", pm |-> pm]
MergedS2D(fs) == [f |-> "merged_s2d", fs |-> fs]
MergedD2S(fs) == [f |-> "merged_d2s", fs |-> fs]

\* position_mappings is the sequence pm: key k is stored at pm[k + 1].
\* dict((v, k) for k, v in position_mappings.items()): of several keys with
\* the same value the one inserted last (the largest) stays.
TabsReversedHas(pm, d) == \E k \in 1..Len(pm) : pm[k] = d
TabsReversedGet(pm, d) ==
    (CHOOSE k \in 1..Len(pm) :
        pm[k] = d /\ \A j \in 1..Len(pm) : pm[j] = d => j <= k) - 1

\* Mutant: a display column that is not recorded gives 0 at once.
TabsDisplayToSourceNoScan(pm, display_pos) ==
    IF display_pos >= 0 /\ TabsReversedHas(pm, display_pos)
    THEN TabsReversedGet(pm, display_pos)
    ELSE 0

\* while display_pos >= 0: try the reversed table, else display_pos -= 1;
\* return 0
RECURSIVE TabsDisplayToSource(_, _)
TabsDisplayToSource(pm, display_pos) ==
    IF display_pos >= 0
    THEN IF TabsReversedHas(pm, display_pos)
         THEN TabsReversedGet(pm, display_pos)
         ELSE TabsDisplayToSource(pm, display_pos - 1)
    ELSE 0

RECURSIVE Call(_, _)
RECURSIVE CallEach(_, _)
\* for f in fs: i = f(i)
CallEach(fs, r) ==
    IF fs = <<>> \/ ~r.ok THEN r
    ELSE CallEach(Tail(fs), Call(fs[1], r.v))

Call(m, i) ==
    CASE m.f = "identity"   -> Ok(i)
      [] m.f = "shift"      -> Ok(i + m.n)
      [] m.f = "unshift"    -> Ok(i - m.n)
      [] m.f = "tabs_s2d"   -> IF i >= 0 /\ i < Len(m.pm) THEN Ok(m.pm[i + 1])
                               ELSE Raise("KeyError")
      [] m.f = "tabs_d2s"   -> Ok(TabsDisplayToSource(m.pm, i))
      [] m.f = "merged_s2d" -> CallEach(m.fs, Ok(i))
      [] m.f = "merged_d2s" -> CallEach(Reverse(m.fs), Ok(i))

----------------------------------------------------------------------------
(* Transformation *)

\* Transformation.__init__: a missing mapping defaults to lambda i: i.
Transformation(fragments, source_to_display, display_to_source) ==
    [fragments |-> fragments,
     source_to_display |-> IF source_to_display = None THEN Identity
                           ELSE source_to_display,
     display_to_source |-> IF display_to_source = None THEN Identity
                           ELSE display_to_source,
     exc |-> ""]

\* apply_transformation left by an exception: nothing is returned.
Raised(e) ==
    [fragments |-> <<>>, source_to_display |-> Identity,
     display_to_source |-> Identity, exc |-> e]

\* width and height are advisory and read by no processor modelled here.
TransformationInput(app, buffer_control, document, lineno, s2d, fragments) ==
    [app |-> app, buffer_control |-> buffer_control,
     document |-> document, lineno |-> lineno,
     source_to_display |-> s2d, fragments |-> fragments]

\* The Application as the processors read it: app.render_counter, app.is_done.
App(render_counter, is_done) ==
    [render_counter |-> render_counter, is_done |-> is_done]

\* The BufferControl as the processors read it: search_buffer is None or a
\* buffer with a text; search_state has text and ignore_case().
SearchBuffer(text) == [kind |-> "Buffer", text |-> text]
SearchState(text, ignore_case) == [text |-> text, ignore_case |-> ignore_case]
BufferControl(search_buffer, search_state) ==
    [search_buffer |-> search_buffer, search_state |-> search_state]

IdleApp == App(0, FALSE)
IdleControl == BufferControl(None, SearchState(<<>>, FALSE))

----------------------------------------------------------------------------
(* Document (prompt_toolkit/document.py), as far as the processors read it *)

\* document.text is a text that may hold "\n"; cursor_position is an absolute
\* offset; selection[row + 1] is what selection_range_at_line(row) returns:
\* NoRange (Python's None) or <<from_column, to_column>>.
NoRange == <<>>

Document(text, cursor_position, selection) ==
    [text |-> text, cursor_position |-> cursor_position, selection |-> selection]

\* Offsets of the line starts: 0 and the offset after every "\n".
LineStarts(text) ==
    {0} \cup {k \in 1..Len(text) : text[k] = "\n"}

line_count(document) == Cardinality(LineStarts(document.text))

\* Start offset of row r (0-based).
RowStart(text, r) ==
    CHOOSE s \in LineStarts(text) :
        Cardinality({x \in LineStarts(text) : x < s}) = r

translate_index_to_position(document, index) ==
    LET row == Cardinality({x \in LineStarts(document.text) : x <= index}) - 1
    IN  <<row, index - RowStart(document.text, row)>>

translate_row_col_to_index(document, row, col) ==
    RowStart(document.text, row) + col

cursor_position_row(document) ==
    translate_index_to_position(document, document.cursor_position)[1]

cursor_position_col(document) ==
    translate_index_to_position(document, document.cursor_position)[2]

\* document.lines[row]
DocLine(document, row) ==
    LET s == RowStart(document.text, row)
        e == IF \E k \in (s + 1)..Len(document.text) : document.text[k] = "\n"
             THEN (CHOOSE k \in (s + 1)..Len(document.text) :
                      document.text[k] = "\n"
                      /\ \A j \in (s + 1)..(k - 1) : document.text[j] # "\n") - 1
             ELSE Len(document.text)
    IN  SubSeq(document.text, s + 1, e)

\* '' when the cursor is at the end of the text
current_char(document) ==
    IF document.cursor_position < Len(document.text)
    THEN document.text[document.cursor_position + 1] ELSE ""

char_before_cursor(document) ==
    IF document.cursor_position >= 1 /\ document.cursor_position <= Len(document.text)
    THEN document.text[document.cursor_position] ELSE ""

selection_range_at_line(document, row) == document.selection[row + 1]

----------------------------------------------------------------------------
(* Processors.  A processor instance is a record; kind is its class. *)

DummyProcessor == [kind |-> "DummyProcessor"]
HighlightSelectionProcessor == [kind |-> "HighlightSelectionProcessor"]
PasswordProcessor(char) == [kind |-> "PasswordProcessor", char |-> char]
\* get_text_fragments(app) is represented by the fragments it returns
BeforeInput(fragments_before) ==
    [kind |-> "BeforeInput", get_text_fragments |-> fragments_before]
TabsProcessor(tabstop) ==
    [kind |-> "TabsProcessor", tabstop |-> tabstop,
     get_char1 |-> "|", get_char2 |-> ".", style |-> <<"class:tab">>]
MergedProcessor(processors) ==
    [kind |-> "_MergedProcessor", processors |-> processors]

merge_processors(processors) == MergedProcessor(processors)

\* DummyProcessor.apply_transformation
DummyApply(self, t) == Transformation(t.fragments, None, None)

\* Mutant: one mask character per fragment.
PasswordApplyOneChar(self, t) ==
    Transformation(
        [k \in 1..Len(t.fragments) |-> <<t.fragments[k][1], <<self.char>>>>],
        None, None)

\* PasswordProcessor.apply_transformation
PasswordApply(self, t) ==
    Transformation(
        [k \in 1..Len(t.fragments) |->
            <<t.fragments[k][1], Repeat(self.char, Len(t.fragments[k][2]))>>],
        None, None)

\* Mutant: the shift is the number of inserted fragments.
BeforeInputApplyCountFragments(self, t) ==
    IF t.lineno = 0
    THEN LET fragments_before == self.get_text_fragments
             shift_position == Len(fragments_before)
         IN  Transformation(fragments_before \o t.fragments,
                            ShiftBy(shift_position), UnshiftBy(shift_position))
    ELSE Transformation(t.fragments, None, None)

\* BeforeInput.apply_transformation
BeforeInputApply(self, t) ==
    IF t.lineno = 0
    THEN LET fragments_before == self.get_text_fragments
             shift_position == fragment_list_len(fragments_before)
         IN  Transformation(fragments_before \o t.fragments,
                            ShiftBy(shift_position), UnshiftBy(shift_position))
    ELSE Transformation(t.fragments, None, None)

\* Mutant: every tab takes tabstop columns, wherever it starts.
TabCountUnaligned(tabstop, pos) == tabstop

\* count = tabstop - (pos % tabstop); if count == 0: count = tabstop
TabCount(tabstop, pos) ==
    LET count == tabstop - PyMod(pos, tabstop)
    IN  IF count = 0 THEN tabstop ELSE count

\* Mutant: separator2 * count, one filler character too many.
RECURSIVE TabsLoopLongFill(_, _, _, _)
TabsLoopLongFill(self, fragments, i, st) ==
    IF i > Len(fragments) \/ st.exc # "" THEN st
    ELSE LET pm == Append(st.pm, st.pos)
         IN  IF fragments[i][2] = <<"\t">>
             THEN IF self.tabstop = 0
                  THEN [st EXCEPT !.exc = "ZeroDivisionError"]
                  ELSE LET count == TabCount(self.tabstop, st.pos)
                       IN  TabsLoopLongFill(self, fragments, i + 1,
                               [pm |-> pm,
                                result |-> st.result \o
                                    << <<self.style, <<self.get_char1>>>>,
                                       <<self.style, Repeat(self.get_char2, count)>> >>,
                                pos |-> st.pos + count,
                                exc |-> ""])
             ELSE TabsLoopLongFill(self, fragments, i + 1,
                      [pm |-> pm,
                       result |-> Append(st.result, fragments[i]),
                       pos |-> st.pos + 1,
                       exc |-> ""])

\* The for loop of TabsProcessor.apply_transformation over the exploded
\* fragments, from index i on; st = [pm, result, pos, exc].
RECURSIVE TabsLoop(_, _, _, _)
TabsLoop(self, fragments, i, st) ==
    IF i > Len(fragments) \/ st.exc # "" THEN st
    ELSE LET pm == Append(st.pm, st.pos)
         IN  IF fragments[i][2] = <<"\t">>
             THEN IF self.tabstop = 0
                  THEN [st EXCEPT !.exc = "ZeroDivisionError"]
                  ELSE LET count == TabCount(self.tabstop, st.pos)
                       IN  TabsLoop(self, fragments, i + 1,
                               [pm |-> pm,
                                result |-> st.result \o
                                    << <<self.style, <<self.get_char1>>>>,
                                       <<self.style, Repeat(self.get_char2, count - 1)>> >>,
                                pos |-> st.pos + count,
                                exc |-> ""])
             ELSE TabsLoop(self, fragments, i + 1,
                      [pm |-> pm,
                       result |-> Append(st.result, fragments[i]),
                       pos |-> st.pos + 1,
                       exc |-> ""])

\* TabsProcessor.apply_transformation
TabsApply(self, t) ==
    LET fragments == explode_text_fragments(t.fragments)
        st == TabsLoop(self, fragments, 1,
                       [pm |-> <<>>, result |-> <<>>, pos |-> 0, exc |-> ""])
        position_mappings == Append(st.pm, st.pos)
    IN  IF st.exc # "" THEN Raised(st.exc)
        ELSE Transformation(st.result, TabsS2D(position_mappings),
                            TabsD2S(position_mappings))

\* Mutant: range(from_, to), the end column is left out.
RECURSIVE SelectionLoopExclusive(_, _, _)
SelectionLoopExclusive(fragments, i, to) ==
    IF i >= to THEN [fragments |-> fragments, exc |-> ""]
    ELSE IF i < Len(fragments)
         THEN LET ix == ListIndex(fragments, i)
              IN  IF ~ix.ok THEN [fragments |-> fragments, exc |-> ix.exc]
                  ELSE SelectionLoopExclusive(
                          [fragments EXCEPT ![ix.v] =
                              <<Append(fragments[ix.v][1], " class:selected "),
                                fragments[ix.v][2]>>],
                          i + 1, to)
         ELSE SelectionLoopExclusive(fragments, i + 1, to)

\* for i in range(from_, to + 1): if i < len(fragments): fragments[i] = ...
RECURSIVE SelectionLoop(_, _, _)
SelectionLoop(fragments, i, to) ==
    IF i > to THEN [fragments |-> fragments, exc |-> ""]
    ELSE IF i < Len(fragments)
         THEN LET ix == ListIndex(fragments, i)
              IN  IF ~ix.ok THEN [fragments |-> fragments, exc |-> ix.exc]
                  ELSE SelectionLoop(
                          [fragments EXCEPT ![ix.v] =
                              <<Append(fragments[ix.v][1], " class:selected "),
                                fragments[ix.v][2]>>],
                          i + 1, to)
         ELSE SelectionLoop(fragments, i + 1, to)

\* HighlightSelectionProcessor.apply_transformation
HighlightSelectionApply(self, t) ==
    LET selection_at_line == selection_range_at_line(t.document, t.lineno)
    IN  IF selection_at_line # NoRange
        THEN LET from_ == Call(t.source_to_display, selection_at_line[1])
                 to == Call(t.source_to_display, selection_at_line[2])
                 fragments == explode_text_fragments(t.fragments)
             IN  IF ~from_.ok THEN Raised(from_.exc)
                 ELSE IF ~to.ok THEN Raised(to.exc)
                 ELSE IF from_.v = 0 /\ to.v = 0 /\ Len(fragments) = 0
                 THEN Transformation(<< <<<<" class:selected ">>, <<" ">>>> >>, None, None)
                 ELSE LET r == SelectionLoop(fragments, from_.v, to.v)
                      IN  IF r.exc # "" THEN Raised(r.exc)
                          ELSE Transformation(r.fragments, None, None)
        ELSE Transformation(t.fragments, None, None)

----------------------------------------------------------------------------
(* HighlightSearchProcessor *)

HighlightSearchProcessor(preview_search) ==
    [kind |-> "HighlightSearchProcessor", preview_search |-> preview_search]

\* HighlightSearchProcessor._get_search_text
GetSearchText(self, app, buffer_control) ==
    IF /\ self.preview_search
       /\ buffer_control.search_buffer # None
       /\ buffer_control.search_buffer.text # <<>>
    THEN buffer_control.search_buffer.text
    ELSE buffer_control.search_state.text

\* str.lower on the characters of the model
Lower(c) == IF c = "A" THEN "a" ELSE IF c = "B" THEN "b" ELSE c

\* whether re.escape(pat) matches text at offset k (0-based)
MatchesAt(text, pat, k, ignore_case) ==
    /\ k + Len(pat) <= Len(text)
    /\ \A j \in 1..Len(pat) :
          IF ignore_case THEN Lower(text[k + j]) = Lower(pat[j])
          ELSE text[k + j] = pat[j]

\* re.finditer(re.escape(pat), text, flags), pat non-empty: the start
\* offsets of the matches found scanning from offset start on; the scan
\* resumes at the end of each match.
\* Mutant: the scan resumes one character after the start of a match.
RECURSIVE FindIterOverlapping(_, _, _, _)
FindIterOverlapping(text, pat, start, ignore_case) ==
    IF \E k \in start..Len(text) : MatchesAt(text, pat, k, ignore_case)
    THEN LET k == CHOOSE k \in start..Len(text) :
                     /\ MatchesAt(text, pat, k, ignore_case)
                     /\ \A j \in start..(k - 1) : ~MatchesAt(text, pat, j, ignore_case)
         IN  <<k>> \o FindIterOverlapping(text, pat, k + 1, ignore_case)
    ELSE <<>>

RECURSIVE FindIter(_, _, _, _)
FindIter(text, pat, start, ignore_case) ==
    IF \E k \in start..Len(text) : MatchesAt(text, pat, k, ignore_case)
    THEN LET k == CHOOSE k \in start..Len(text) :
                     /\ MatchesAt(text, pat, k, ignore_case)
                     /\ \A j \in start..(k - 1) : ~MatchesAt(text, pat, j, ignore_case)
         IN  <<k>> \o FindIter(text, pat, k + Len(pat), ignore_case)
    ELSE <<>>

\* for i in range(match.start(), match.end()): fragments[i] = ...
RECURSIVE SearchTagRange(_, _, _, _)
SearchTagRange(fragments, i, end, tag) ==
    IF i >= end THEN fragments
    ELSE SearchTagRange(
            [fragments EXCEPT ![i + 1] =
                <<Append(fragments[i + 1][1], tag), fragments[i + 1][2]>>],
            i + 1, end, tag)

\* for match in re.finditer(...): cursor_column is -1 for Python's None
RECURSIVE SearchLoop(_, _, _, _)
SearchLoop(fragments, matches, length, cursor_column) ==
    IF matches = <<>> THEN fragments
    ELSE LET start == matches[1]
             end == start + length
             on_cursor == IF cursor_column # -1
                          THEN start <= cursor_column /\ cursor_column < end
                          ELSE FALSE
             tag == IF on_cursor THEN " class:search-match.current "
                    ELSE " class:search-match "
         IN  SearchLoop(SearchTagRange(fragments, start, end, tag),
                        Tail(matches), length, cursor_column)

\* HighlightSearchProcessor.apply_transformation
HighlightSearchApply(self, t) ==
    LET search_text == GetSearchText(self, t.app, t.buffer_control)
    IN  IF search_text # <<>> /\ ~t.app.is_done
        THEN LET line_text == fragment_list_to_text(t.fragments)
                 fragments == explode_text_fragments(t.fragments)
                 on_row == cursor_position_row(t.document) = t.lineno
                 col == IF on_row
                        THEN Call(t.source_to_display, cursor_position_col(t.document))
                        ELSE Ok(-1)
             IN  IF ~col.ok THEN Raised(col.exc)
                 ELSE Transformation(
                        SearchLoop(fragments,
                            FindIter(line_text, search_text, 0,
                                     t.buffer_control.search_state.ignore_case),
                            Len(search_text),
                            IF on_row THEN col.v ELSE -1),
                        None, None)
        ELSE Transformation(t.fragments, None, None)

----------------------------------------------------------------------------
(* HighlightMatchingBracketProcessor *)

closing_braces == <<"]", ")", "}", ">">>

\* SimpleCache(maxsize=8)
PositionsCacheMaxsize == 8

HighlightMatchingBracketProcessor(chars, max_cursor_distance) ==
    [kind |-> "HighlightMatchingBracketProcessor", chars |-> chars,
     max_cursor_distance |-> max_cursor_distance]

\* c in s, for a character c and a string s
InStr(c, str) == \E k \in 1..Len(str) : str[k] = c

BracketPairs == << <<"(", ")">>, <<"[", "]">>, <<"{", "}">>, <<"<", ">">> >>

\* Document.find_enclosing_bracket_right: scan from offset i to offset last.
RECURSIVE ScanRight(_, _, _, _, _, _)
ScanRight(text, i, last, left_ch, right_ch, stack) ==
    IF i > last THEN -1
    ELSE LET c == text[i + 1]
             st == IF c = left_ch THEN stack + 1
                   ELSE IF c = right_ch THEN stack - 1 ELSE stack
         IN  IF st = 0 THEN i
             ELSE ScanRight(text, i + 1, last, left_ch, right_ch, st)

\* Document.find_enclosing_bracket_left: scan from offset i down to first.
RECURSIVE ScanLeft(_, _, _, _, _, _)
ScanLeft(text, i, first, left_ch, right_ch, stack) ==
    IF i < first THEN -1
    ELSE LET c == text[i + 1]
             st == IF c = right_ch THEN stack + 1
                   ELSE IF c = left_ch THEN stack - 1 ELSE stack
         IN  IF st = 0 THEN i
             ELSE ScanLeft(text, i - 1, first, left_ch, right_ch, st)

\* Document.find_matching_bracket_position(start_pos, end_pos): the relative
\* position of the counterpart of the bracket under the cursor, looked for in
\* the window [start_pos, end_pos]; 0 when there is none.
find_matching_bracket_position(document, start_pos, end_pos) ==
    LET c == current_char(document)
        cur == document.cursor_position
        text == document.text
    IN  IF \E k \in 1..Len(BracketPairs) : BracketPairs[k][1] = c
        THEN LET pr == BracketPairs[CHOOSE k \in 1..Len(BracketPairs) :
                                        BracketPairs[k][1] = c]
                 m == ScanRight(text, cur + 1, Min(Len(text) - 1, end_pos),
                                pr[1], pr[2], 1)
             IN  IF m = -1 THEN 0 ELSE m - cur
        ELSE IF \E k \in 1..Len(BracketPairs) : BracketPairs[k][2] = c
        THEN LET pr == BracketPairs[CHOOSE k \in 1..Len(BracketPairs) :
                                        BracketPairs[k][2] = c]
                 m == ScanLeft(text, cur - 1, Max(0, start_pos),
                               pr[1], pr[2], 1)
             IN  IF m = -1 THEN 0 ELSE m - cur
        ELSE 0

\* The tail of _get_positions_to_highlight: `if pos:` on the document the
\* search ran on.
PositionsFor(document, pos) ==
    IF pos # 0
    THEN << translate_index_to_position(document, pos + document.cursor_position),
            <<cursor_position_row(document), cursor_position_col(document)>> >>
    ELSE <<>>

\* Mutant: the character before the cursor need not be a closing bracket.
GetPositionsToHighlightAnyBefore(self, document) ==
    IF current_char(document) # "" /\ InStr(current_char(document), self.chars)
    THEN PositionsFor(document,
            find_matching_bracket_position(document,
                document.cursor_position - self.max_cursor_distance,
                document.cursor_position + self.max_cursor_distance))
    ELSE IF /\ char_before_cursor(document) # ""
            /\ InStr(char_before_cursor(document), self.chars)
    THEN LET before == Document(document.text, document.cursor_position - 1,
                                document.selection)
         IN  PositionsFor(before,
                find_matching_bracket_position(before,
                    before.cursor_position - self.max_cursor_distance,
                    before.cursor_position + self.max_cursor_distance))
    ELSE <<>>

\* HighlightMatchingBracketProcessor._get_positions_to_highlight
GetPositionsToHighlight(self, document) ==
    IF current_char(document) # "" /\ InStr(current_char(document), self.chars)
    THEN PositionsFor(document,
            find_matching_bracket_position(document,
                document.cursor_position - self.max_cursor_distance,
                document.cursor_position + self.max_cursor_distance))
    ELSE IF /\ char_before_cursor(document) # ""
            /\ InStr(char_before_cursor(document), closing_braces)
            /\ InStr(char_before_cursor(document), self.chars)
    THEN LET before == Document(document.text, document.cursor_position - 1,
                                document.selection)
         IN  PositionsFor(before,
                find_matching_bracket_position(before,
                    before.cursor_position - self.max_cursor_distance,
                    before.cursor_position + self.max_cursor_distance))
    ELSE <<>>

\* Mutant: the cursor position is left out of the key.
PositionsKeyNoCursor(t) ==
    <<t.app.render_counter, t.document.text, 0>>

\* key = (app.render_counter, document.text, document.cursor_position)
PositionsKey(t) ==
    <<t.app.render_counter, t.document.text, t.document.cursor_position>>

\* SimpleCache: data is the set of <<key, value>> entries, keys the queue of
\* the keys in insertion order.
CacheHas(c, key) == \E e \in c.data : e[1] = key
CacheValue(c, key) == (CHOOSE e \in c.data : e[1] = key)[2]

\* SimpleCache.get on a miss: store the value, then drop the oldest key when
\* the cache holds more than maxsize entries.
CacheStore(c, key, value) ==
    LET data == c.data \cup {<<key, value>>}
        keys == Append(c.keys, key)
    IN  IF Cardinality(data) > PositionsCacheMaxsize
        THEN [data |-> {e \in data : e[1] # keys[1]}, keys |-> Tail(keys)]
        ELSE [data |-> data, keys |-> keys]

\* The loop `for row, col in positions` of apply_transformation;
\* st = [fragments, exc].
RECURSIVE BracketLoop(_, _, _, _)
BracketLoop(t, positions, k, st) ==
    IF k > Len(positions) \/ st.exc # "" THEN st
    ELSE IF positions[k][1] = t.lineno
    THEN LET col == Call(t.source_to_display, positions[k][2])
             fragments == explode_text_fragments(st.fragments)
         IN  IF ~col.ok THEN [st EXCEPT !.exc = col.exc]
             ELSE LET ix == ListIndex(fragments, col.v)
                  IN  IF ~ix.ok THEN [st EXCEPT !.exc = ix.exc]
                      ELSE BracketLoop(t, positions, k + 1,
                              [fragments |->
                                  [fragments EXCEPT ![ix.v] =
                                      <<Append(fragments[ix.v][1],
                                          IF col.v = cursor_position_col(t.document)
                                          THEN " class:matching-bracket.cursor "
                                          ELSE " class:matching-bracket.other "),
                                        fragments[ix.v][2]>>],
                               exc |-> ""])
    ELSE BracketLoop(t, positions, k + 1, st)

\* HighlightMatchingBracketProcessor.apply_transformation, given the
\* positions the cache returned
BracketApply(self, t, positions) ==
    LET st == BracketLoop(t, positions, 1, [fragments |-> t.fragments, exc |-> ""])
    IN  IF st.exc # "" THEN Raised(st.exc)
        ELSE Transformation(st.fragments, None, None)

----------------------------------------------------------------------------
(* DisplayMultipleCursors, AfterInput, the whitespace processors *)

\* The Buffer as DisplayMultipleCursors reads it.
Buffer(multiple_cursor_positions) ==
    [multiple_cursor_positions |-> multiple_cursor_positions]

\* A BufferControl with its buffer, no search going on.
CursorsControl(buffer) ==
    [search_buffer |-> None, search_state |-> SearchState(<<>>, FALSE),
     buffer |-> buffer]

\* An Application in Vi mode: insert_multiple is what ViInsertMultipleMode()
\* evaluates to.
ViApp(insert_multiple) ==
    [render_counter |-> 0, is_done |-> FALSE, insert_multiple |-> insert_multiple]

DisplayMultipleCursors == [kind |-> "DisplayMultipleCursors"]

\* self._insert_multiple(app)
InsertMultiple(app) == app.insert_multiple

\* Mutant: the column is not mapped through source_to_display.
RECURSIVE CursorsLoopUnmapped(_, _, _, _, _, _)
CursorsLoopUnmapped(t, positions, k, start_pos, end_pos, st) ==
    IF k > Len(positions) \/ st.exc # "" THEN st
    ELSE LET p == positions[k]
         IN  IF start_pos <= p /\ p < end_pos
             THEN LET column == Ok(p - start_pos)
                  IN  IF ~column.ok THEN [st EXCEPT !.exc = column.exc]
                      ELSE LET ix == ListIndex(st.fragments, column.v)
                           IN  IF ~ix.ok THEN [st EXCEPT !.exc = ix.exc]
                               ELSE CursorsLoopUnmapped(t, positions, k + 1, start_pos, end_pos,
                                       [fragments |->
                                           [st.fragments EXCEPT ![ix.v] =
                                               <<Append(st.fragments[ix.v][1],
                                                        " class:multiple-cursors.cursor "),
                                                 st.fragments[ix.v][2]>>],
                                        exc |-> ""])
             ELSE IF p = end_pos
             THEN CursorsLoopUnmapped(t, positions, k + 1, start_pos, end_pos,
                     [fragments |->
                         Append(st.fragments,
                                <<<<" class:multiple-cursors.cursor ">>, <<" ">>>>),
                      exc |-> ""])
             ELSE CursorsLoopUnmapped(t, positions, k + 1, start_pos, end_pos, st)

\* for p in positions, from the k-th position on; st = [fragments, exc]
RECURSIVE CursorsLoop(_, _, _, _, _, _)
CursorsLoop(t, positions, k, start_pos, end_pos, st) ==
    IF k > Len(positions) \/ st.exc # "" THEN st
    ELSE LET p == positions[k]
         IN  IF start_pos <= p /\ p < end_pos
             THEN LET column == Call(t.source_to_display, p - start_pos)
                  IN  IF ~column.ok THEN [st EXCEPT !.exc = column.exc]
                      ELSE LET ix == ListIndex(st.fragments, column.v)
                           IN  IF ~ix.ok THEN [st EXCEPT !.exc = ix.exc]
                               ELSE CursorsLoop(t, positions, k + 1, start_pos, end_pos,
                                       [fragments |->
                                           [st.fragments EXCEPT ![ix.v] =
                                               <<Append(st.fragments[ix.v][1],
                                                        " class:multiple-cursors.cursor "),
                                                 st.fragments[ix.v][2]>>],
                                        exc |-> ""])
             ELSE IF p = end_pos
             THEN CursorsLoop(t, positions, k + 1, start_pos, end_pos,
                     [fragments |->
                         Append(st.fragments,
                                <<<<" class:multiple-cursors.cursor ">>, <<" ">>>>),
                      exc |-> ""])
             ELSE CursorsLoop(t, positions, k + 1, start_pos, end_pos, st)

\* DisplayMultipleCursors.apply_transformation
DisplayMultipleCursorsApply(self, t) ==
    IF InsertMultiple(t.app)
    THEN LET positions == t.buffer_control.buffer.multiple_cursor_positions
             fragments == explode_text_fragments(t.fragments)
             start_pos == translate_row_col_to_index(t.document, t.lineno, 0)
             end_pos == start_pos + Len(DocLine(t.document, t.lineno))
             st == CursorsLoop(t, positions, 1, start_pos, end_pos,
                               [fragments |-> fragments, exc |-> ""])
         IN  IF st.exc # "" THEN Raised(st.exc)
             ELSE Transformation(st.fragments, None, None)
    ELSE Transformation(t.fragments, None, None)

\* get_text_fragments(app) is represented by the fragments it returns
AfterInput(fragments_after) ==
    [kind |-> "AfterInput", get_text_fragments |-> fragments_after]

\* AfterInput.apply_transformation
AfterInputApply(self, t) ==
    IF t.lineno = line_count(t.document) - 1
    THEN Transformation(t.fragments \o self.get_text_fragments, None, None)
    ELSE Transformation(t.fragments, None, None)

\* get_char(app) is represented by the character it returns
ShowLeadingWhiteSpaceProcessor(get_char) ==
    [kind |-> "ShowLeadingWhiteSpaceProcessor", get_char |-> get_char,
     style |-> <<"class:leading-whitespace">>]

ShowTrailingWhiteSpaceProcessor(get_char) ==
    [kind |-> "ShowTrailingWhiteSpaceProcessor", get_char |-> get_char,
     style |-> <<"class:training-whitespace">>]

\* str.startswith(' ') and str.endswith(' ') on a text
StartsWithSpace(text) == Len(text) >= 1 /\ text[1] = " "
EndsWithSpace(text) == Len(text) >= 1 /\ text[Len(text)] = " "

\* for i in range(len(fragments)): replace while fragments[i][1] == ' '
RECURSIVE LeadingLoop(_, _, _)
LeadingLoop(fragments, i, t) ==
    IF i >= Len(fragments) THEN fragments
    ELSE IF fragments[i + 1][2] = <<" ">>
         THEN LeadingLoop([fragments EXCEPT ![i + 1] = t], i + 1, t)
         ELSE fragments

\* ShowLeadingWhiteSpaceProcessor.apply_transformation
ShowLeadingWhiteSpaceApply(self, t) ==
    IF t.fragments # <<>> /\ StartsWithSpace(fragment_list_to_text(t.fragments))
    THEN Transformation(
            LeadingLoop(explode_text_fragments(t.fragments), 0,
                        <<self.style, <<self.get_char>>>>),
            None, None)
    ELSE Transformation(t.fragments, None, None)

\* for i in range(len(fragments) - 1, -1, -1): replace while it is ' '
RECURSIVE TrailingLoop(_, _, _)
TrailingLoop(fragments, i, t) ==
    IF i < 0 THEN fragments
    ELSE IF fragments[i + 1][2] = <<" ">>
         THEN TrailingLoop([fragments EXCEPT ![i + 1] = t], i - 1, t)
         ELSE fragments

\* ShowTrailingWhiteSpaceProcessor.apply_transformation: the test reads the
\* text of the last fragment only.
ShowTrailingWhiteSpaceApply(self, t) ==
    IF t.fragments # <<>> /\ EndsWithSpace(t.fragments[Len(t.fragments)][2])
    THEN LET fragments == explode_text_fragments(t.fragments)
         IN  Transformation(
                TrailingLoop(fragments, Len(fragments) - 1,
                             <<self.style, <<self.get_char>>>>),
                None, None)
    ELSE Transformation(t.fragments, None, None)

----------------------------------------------------------------------------
(* ConditionalProcessor, DynamicProcessor *)

\* An AppFilter, as what it evaluates: Always(), Never(), or IsDone().
Always == [filter |-> "Always"]
Never == [filter |-> "Never"]
IsDone == [filter |-> "IsDone"]

\* filter(app)
FilterCall(filter, app) ==
    CASE filter.filter = "Always" -> TRUE
      [] filter.filter = "Never" -> FALSE
      [] filter.filter = "IsDone" -> app.is_done

ConditionalProcessor(processor, filter) ==
    [kind |-> "ConditionalProcessor", processor |-> processor, filter |-> filter]

\* get_processor() is represented by what it returns: a processor or None
DynamicProcessor(get_processor) ==
    [kind |-> "DynamicProcessor", get_processor |-> get_processor]

----------------------------------------------------------------------------
(* ReverseSearchProcessor._content: filter_processor and new_processor *)

\* _excluded_input_processors, by isinstance
excluded_processors ==
    {"HighlightSearchProcessor", "HighlightSelectionProcessor", "BeforeInput",
     "AfterInput"}

NotNone(p) == p # None

\* filter_processor(item): an accepted processor, or None.  A function that
\* ends without a return statement returns None; `accepted_processors == 1`
\* compares a list with a number and is False for every list.
RECURSIVE filter_processor(_)
filter_processor(item) ==
    IF item.kind = "_MergedProcessor"
    THEN LET accepted_processors ==
                 SelectSeq([k \in 1..Len(item.processors) |->
                               filter_processor(item.processors[k])], NotNone)
         IN  IF Len(accepted_processors) > 1
             THEN MergedProcessor(accepted_processors)
             ELSE None
    ELSE IF item.kind = "ConditionalProcessor"
    THEN LET p == filter_processor(item.processor)
         IN  IF p # None THEN ConditionalProcessor(p, item.filter) ELSE None
    ELSE IF item.kind \notin excluded_processors THEN item ELSE None

\* highlight_processor and new_processor of _content
NewProcessor(filtered_processor) ==
    LET highlight_processor == HighlightSearchProcessor(TRUE)
    IN  IF filtered_processor # None
        THEN MergedProcessor(<<filtered_processor, highlight_processor>>)
        ELSE highlight_processor

----------------------------------------------------------------------------
(* _MergedProcessor and the dispatch *)

RECURSIVE Apply(_, _)
RECURSIVE MergedLoop(_, _, _, _)

----------------------------------------------------------------------------
(* ReverseSearchProcessor.  The controls (layout/controls.py) are objects: *)
(* id stands for the identity of a control, and a reference to a control   *)
(* is its id.                                                              *)

\* Bound: the nested render passes Python's recursion limit allows; a pass
\* beyond it ends the call with RecursionError.
MaxDepth == 3

ReverseSearchProcessor == [kind |-> "ReverseSearchProcessor"]

\* SearchState with its direction: "FORWARD" or "BACKWARD"
DirectedSearchState(text, ignore_case, direction) ==
    [text |-> text, ignore_case |-> ignore_case, direction |-> direction]

\* The Buffer of a searched control: its document, and the document
\* document_for_search(search_state) returns, with the cursor on the match.
SearchedBuffer(document, document_for_search) ==
    [document |-> document, document_for_search |-> document_for_search]

\* BufferControl(buffer, input_processor, preview_search,
\* search_buffer_control): search_buffer_control is a reference or None;
\* search_buffer and search_state are what the properties of these names
\* return.
ControlObject(id, buffer, input_processor, preview_search, search_buffer_control, search_buffer, search_state) ==
    [kind |-> "BufferControl", id |-> id, buffer |-> buffer,
     input_processor |-> input_processor, preview_search |-> preview_search,
     search_buffer_control |-> search_buffer_control,
     search_buffer |-> search_buffer, search_state |-> search_state]

\* The Application with app.layout.previous_control
LayoutApp(previous_control, is_done) ==
    [render_counter |-> 0, is_done |-> is_done,
     layout |-> [previous_control |-> previous_control]]

\* The identity of the BufferControl that _content constructs during a call
\* on the control with identity id: an object no reference made before the
\* call can point to.
ContentId(id) == [obj |-> "content", by |-> id]

\* How many render passes deep the control with identity id is rendered.
RECURSIVE Depth(_)
Depth(id) == IF id.obj = "content" THEN 1 + Depth(id.by) ELSE 0

\* Mutant: any BufferControl that was focussed before counts as the main
\* control.
GetMainBufferAnyControl(app, buffer_control) ==
    LET prev_control == app.layout.previous_control
    IN  IF prev_control.kind = "BufferControl"
        THEN [main_control |-> prev_control, search_state |-> prev_control.search_state]
        ELSE [main_control |-> None, search_state |-> None]

\* ReverseSearchProcessor._get_main_buffer
GetMainBuffer(app, buffer_control) ==
    LET prev_control == app.layout.previous_control
    IN  IF /\ prev_control.kind = "BufferControl"
           /\ prev_control.search_buffer_control = buffer_control.id
        THEN [main_control |-> prev_control, search_state |-> prev_control.search_state]
        ELSE [main_control |-> None, search_state |-> None]

\* buffer_control of _content: BufferControl(buffer=main_control.buffer,
\* input_processor=new_processor, preview_search=True,
\* search_buffer_control=ti.buffer_control)
ContentControl(main_control, t) ==
    ControlObject(ContentId(t.buffer_control.id), main_control.buffer,
        NewProcessor(filter_processor(main_control.input_processor)), TRUE,
        t.buffer_control.id,
        SearchBuffer(t.buffer_control.buffer.document.text),
        t.buffer_control.search_state)

\* The document a control renders: with preview_search the one the search
\* would move to.
RenderedDocument(control) ==
    IF control.preview_search THEN control.buffer.document_for_search
    ELSE control.buffer.document

\* What get_line(row) of control.create_content(app, width, height) is handed
\* by the control: the row as the lexer returns it, under the identity
\* mapping, with the control itself as buffer_control.
ContentInput(control, app, row) ==
    LET document == RenderedDocument(control)
        line == DocLine(document, row)
    IN  TransformationInput(app, control, document, row, Identity,
            IF line = <<>> THEN <<>> ELSE << <<<<"x">>, line>> >>)

\* create_content(app, width, height).get_line(row): the control's input
\* processor applied to the row.
GetLine(control, app, row) ==
    Apply(control.input_processor, ContentInput(control, app, row))

\* whether apply_transformation takes the branch that calls _content
StartsNestedPass(self, t) ==
    t.lineno = 0 /\ GetMainBuffer(t.app, t.buffer_control).main_control # None

\* The character ` of ')`', which a string of this module cannot hold.
backquote == "[backquote]"

\* direction_text
DirectionText(search_state) ==
    IF search_state.direction = "FORWARD"
    THEN <<"i", "-", "s", "e", "a", "r", "c", "h">>
    ELSE <<"r", "e", "v", "e", "r", "s", "e", "-",
           "i", "-", "s", "e", "a", "r", "c", "h">>

\* ReverseSearchProcessor.apply_transformation
ReverseSearchApply(self, t) ==
    LET found == GetMainBuffer(t.app, t.buffer_control)
        main_control == found.main_control
        search_state == found.search_state
    IN  IF t.lineno = 0 /\ main_control # None
        THEN IF Depth(t.buffer_control.id) >= MaxDepth
             THEN Raised("RecursionError")
             ELSE LET content == ContentControl(main_control, t)
                      line == GetLine(content, t.app,
                                  cursor_position_row(main_control.buffer.document_for_search))
                      fragments_before ==
                          << <<<<"class:prompt.search">>, <<"(">>>>,
                             <<<<"class:prompt.search">>, DirectionText(search_state)>>,
                             <<<<"class:prompt.search">>, <<")", backquote>>>> >>
                      fragments ==
                          fragments_before
                          \o << <<<<"class:prompt.search.text">>,
                                  fragment_list_to_text(t.fragments)>>,
                                <<<<>>, <<"'", ":", " ">>>> >>
                          \o line.fragments
                      shift_position == fragment_list_len(fragments_before)
                  IN  IF line.exc # "" THEN Raised(line.exc)
                      ELSE Transformation(fragments, ShiftBy(shift_position),
                                          UnshiftBy(shift_position))
        ELSE Transformation(t.fragments, None, None)


\* Mutant: the processor runs when the filter says no.
ConditionalApplyInverted(self, t) ==
    IF ~FilterCall(self.filter, t.app)
    THEN Apply(self.processor, t)
    ELSE Transformation(t.fragments, None, None)

\* ConditionalProcessor.apply_transformation
ConditionalApply(self, t) ==
    IF FilterCall(self.filter, t.app)
    THEN Apply(self.processor, t)
    ELSE Transformation(t.fragments, None, None)

\* DynamicProcessor.apply_transformation:
\* processor = self.get_processor() or DummyProcessor()
DynamicApply(self, t) ==
    LET processor == IF self.get_processor = None THEN DummyProcessor
                     ELSE self.get_processor
    IN  Apply(processor, t)

\* The for loop of _MergedProcessor.apply_transformation from processor k on;
\* st = [s2d_functions, d2s_functions, fragments, inputs, exc].  The closure
\* source_to_display handed to a processor reads source_to_display_functions
\* when it is called, which a processor does during its own apply: it sees
\* the list as it is at that iteration.  inputs records what each processor
\* was handed.
MergedLoop(self, t, k, st) ==
    IF k > Len(self.processors) \/ st.exc # "" THEN st
    ELSE LET sub == TransformationInput(t.app, t.buffer_control, t.document,
                        t.lineno, MergedS2D(st.s2d_functions), st.fragments)
             transformation == Apply(self.processors[k], sub)
         IN  IF transformation.exc # ""
             THEN [st EXCEPT !.exc = transformation.exc,
                             !.inputs = Append(st.inputs, sub)]
             ELSE MergedLoop(self, t, k + 1,
                     [s2d_functions |->
                          Append(st.s2d_functions, transformation.source_to_display),
                      d2s_functions |->
                          Append(st.d2s_functions, transformation.display_to_source),
                      fragments |-> transformation.fragments,
                      inputs |-> Append(st.inputs, sub),
                      exc |-> ""])

\* Mutant: the list of functions starts without the caller's mapping.
MergedRunWithoutCaller(self, t) ==
    MergedLoop(self, t, 1,
        [s2d_functions |-> <<Identity>>, d2s_functions |-> <<>>,
         fragments |-> t.fragments, inputs |-> <<>>, exc |-> ""])

\* source_to_display_functions = [ti.source_to_display];
\* display_to_source_functions = []; fragments = ti.fragments; the loop
MergedRun(self, t) ==
    MergedLoop(self, t, 1,
        [s2d_functions |-> <<t.source_to_display>>, d2s_functions |-> <<>>,
         fragments |-> t.fragments, inputs |-> <<>>, exc |-> ""])

\* Mutant: display_to_source applies the functions in forward order.
MergedApplyForwardD2S(self, t) ==
    LET st == MergedRun(self, t)
    IN  IF st.exc # "" THEN Raised(st.exc)
        ELSE Transformation(st.fragments,
                            MergedS2D(Tail(st.s2d_functions)),
                            MergedD2S(Reverse(st.d2s_functions)))

\* Mutant: the caller's source_to_display is not deleted from the list.
MergedApplyKeepFirst(self, t) ==
    LET st == MergedRun(self, t)
    IN  IF st.exc # "" THEN Raised(st.exc)
        ELSE Transformation(st.fragments,
                            MergedS2D(st.s2d_functions),
                            MergedD2S(st.d2s_functions))

\* _MergedProcessor.apply_transformation
MergedApply(self, t) ==
    LET st == MergedRun(self, t)
    IN  IF st.exc # "" THEN Raised(st.exc)
        ELSE \* del source_to_display_functions[:1]
             Transformation(st.fragments,
                            MergedS2D(Tail(st.s2d_functions)),
                            MergedD2S(st.d2s_functions))

\* Processor.apply_transformation, dispatched on the class of self
Apply(self, t) ==
    CASE self.kind = "DummyProcessor" -> DummyApply(self, t)
      [] self.kind = "PasswordProcessor" -> PasswordApply(self, t)
      [] self.kind = "BeforeInput" -> BeforeInputApply(self, t)
      [] self.kind = "TabsProcessor" -> TabsApply(self, t)
      [] self.kind = "HighlightSelectionProcessor" -> HighlightSelectionApply(self, t)
      [] self.kind = "HighlightSearchProcessor" -> HighlightSearchApply(self, t)
      [] self.kind = "_MergedProcessor" -> MergedApply(self, t)
      [] self.kind = "DisplayMultipleCursors" -> DisplayMultipleCursorsApply(self, t)
      [] self.kind = "AfterInput" -> AfterInputApply(self, t)
      [] self.kind = "ShowLeadingWhiteSpaceProcessor" -> ShowLeadingWhiteSpaceApply(self, t)
      [] self.kind = "ShowTrailingWhiteSpaceProcessor" -> ShowTrailingWhiteSpaceApply(self, t)
      [] self.kind = "ConditionalProcessor" -> ConditionalApply(self, t)
      [] self.kind = "DynamicProcessor" -> DynamicApply(self, t)
      [] self.kind = "ReverseSearchProcessor" -> ReverseSearchApply(self, t)

----------------------------------------------------------------------------
(* The fragment lists as objects.  A Python list is an object that item    *)
(* assignment and append change in place; h is the collection of the list  *)
(* objects and a reference r is an index into it.                          *)

\* a new list object with the given items
Alloc(h, items) == [heap |-> Append(h, items), ref |-> Len(h) + 1]

\* explode_text_fragments(fragments) on the list object r: a new list with
\* one item per character.
ExplodeList(h, r) == Alloc(h, explode_text_fragments(h[r]))

\* Mutant: the stages that explode assign and append on the list they were
\* handed instead.
ResultListInPlace(self, t) ==
    CASE self.kind = "DummyProcessor" -> "same"
      [] self.kind \in {"PasswordProcessor", "TabsProcessor", "BeforeInput",
                        "AfterInput"} -> "new"
      [] OTHER -> "in place"

\* The list object the Transformation of a leaf stage holds, by the
\* statements that produced it: "same" is the list handed in, returned as it
\* is; "new" a list built by +, a comprehension or append on an empty list;
\* "exploded" the list explode_text_fragments returned, which the stage then
\* assigns to or appends to.  ("in place": the list handed in, assigned to.)
ResultList(self, t) ==
    CASE self.kind = "DummyProcessor" -> "same"
      [] self.kind = "PasswordProcessor" -> "new"
      [] self.kind = "TabsProcessor" -> "new"
      [] self.kind = "BeforeInput" -> IF t.lineno = 0 THEN "new" ELSE "same"
      [] self.kind = "AfterInput" ->
            IF t.lineno = line_count(t.document) - 1 THEN "new" ELSE "same"
      [] self.kind = "HighlightSearchProcessor" ->
            IF GetSearchText(self, t.app, t.buffer_control) # <<>> /\ ~t.app.is_done
            THEN "exploded" ELSE "same"
      [] self.kind = "HighlightSelectionProcessor" ->
            IF selection_range_at_line(t.document, t.lineno) = NoRange THEN "same"
            ELSE IF HighlightSelectionApply(self, t).fragments
                       = << <<<<" class:selected ">>, <<" ">>>> >>
                    /\ t.fragments = <<>>
                 THEN "new" ELSE "exploded"
      [] self.kind = "DisplayMultipleCursors" ->
            IF InsertMultiple(t.app) THEN "exploded" ELSE "same"
      [] self.kind = "ShowLeadingWhiteSpaceProcessor" ->
            IF t.fragments # <<>> /\ StartsWithSpace(fragment_list_to_text(t.fragments))
            THEN "exploded" ELSE "same"
      [] self.kind = "ShowTrailingWhiteSpaceProcessor" ->
            IF t.fragments # <<>> /\ EndsWithSpace(t.fragments[Len(t.fragments)][2])
            THEN "exploded" ELSE "same"

RECURSIVE ApplyList(_, _, _, _, _)
RECURSIVE MergedLoopList(_, _, _, _)

\* The for loop of _MergedProcessor.apply_transformation on list objects;
\* st = [s2d_functions, ref, heap, calls]: `fragments` is the list st.ref.
MergedLoopList(self, t, k, st) ==
    IF k > Len(self.processors) THEN st
    ELSE LET sub == TransformationInput(t.app, t.buffer_control, t.document,
                        t.lineno, MergedS2D(st.s2d_functions), st.heap[st.ref])
             transformation == Apply(self.processors[k], sub)
             r == ApplyList(self.processors[k], sub, st.heap, st.ref, st.calls)
         IN  IF transformation.exc # ""
             THEN [st EXCEPT !.heap = r.heap, !.calls = r.calls]
             ELSE MergedLoopList(self, t, k + 1,
                     [s2d_functions |->
                          Append(st.s2d_functions, transformation.source_to_display),
                      ref |-> r.ref, heap |-> r.heap, calls |-> r.calls])

\* apply_transformation of self on the input t whose fragments are the list
\* object r of h: the list objects afterwards, the list the returned
\* Transformation holds, and the calls made.
ApplyList(self, t, h, r, log) ==
    LET made == Append(log, <<r, h[r], self.kind>>)
    IN  CASE self.kind = "_MergedProcessor" ->
                LET st == MergedLoopList(self, t, 1,
                              [s2d_functions |-> <<t.source_to_display>>,
                               ref |-> r, heap |-> h, calls |-> made])
                IN  [heap |-> st.heap, ref |-> st.ref, calls |-> st.calls]
          [] self.kind = "ConditionalProcessor" ->
                IF FilterCall(self.filter, t.app)
                THEN ApplyList(self.processor, t, h, r, made)
                ELSE [heap |-> h, ref |-> r, calls |-> made]
          [] self.kind = "DynamicProcessor" ->
                ApplyList(IF self.get_processor = None THEN DummyProcessor
                          ELSE self.get_processor, t, h, r, made)
          [] OTHER ->
                LET transformation == Apply(self, t)
                    list == ResultList(self, t)
                IN  IF transformation.exc # "" \/ list = "same"
                    THEN [heap |-> h, ref |-> r, calls |-> made]
                    ELSE IF list = "new"
                    THEN Alloc(h, transformation.fragments) @@ [calls |-> made]
                    ELSE IF list = "exploded"
                    THEN LET e == ExplodeList(h, r)
                         IN  [heap |-> [e.heap EXCEPT ![e.ref] = transformation.fragments],
                              ref |-> e.ref, calls |-> made]
                    ELSE [heap |-> [h EXCEPT ![r] = transformation.fragments],
                          ref |-> r, calls |-> made]

----------------------------------------------------------------------------
(* The render passes started inside an apply_transformation call *)

RECURSIVE PassesOf(_, _)
RECURSIVE PassesOfEach(_, _, _)

\* the passes started by processors[k..] of a merged processor, each called
\* with what the merged processor handed it
PassesOfEach(processors, inputs, k) ==
    IF k > Len(inputs) THEN <<>>
    ELSE PassesOf(processors[k], inputs[k]) \o PassesOfEach(processors, inputs, k + 1)

\* The calls of create_content(...).get_line made while self is applied to
\* t, in the order they are started: _content is entered by a
\* ReverseSearchProcessor on line 0 that found a main control, and the pass
\* it starts applies the input processor of the control built there.
PassesOf(self, t) ==
    CASE self.kind = "_MergedProcessor" ->
            PassesOfEach(self.processors, MergedRun(self, t).inputs, 1)
      [] self.kind = "ConditionalProcessor" ->
            IF FilterCall(self.filter, t.app) THEN PassesOf(self.processor, t)
            ELSE <<>>
      [] self.kind = "DynamicProcessor" ->
            PassesOf(IF self.get_processor = None THEN DummyProcessor
                     ELSE self.get_processor, t)
      [] self.kind = "ReverseSearchProcessor" ->
            IF StartsNestedPass(self, t) /\ Depth(t.buffer_control.id) < MaxDepth
            THEN LET main_control == GetMainBuffer(t.app, t.buffer_control).main_control
                     content == ContentControl(main_control, t)
                     row == cursor_position_row(main_control.buffer.document_for_search)
                 IN  << [by |-> t.buffer_control.id, control |-> content.id,
                         lineno |-> row, depth |-> Depth(content.id)] >>
                     \o PassesOf(content.input_processor,
                                 ContentInput(content, t.app, row))
            ELSE <<>>
      [] OTHER -> <<>>

----------------------------------------------------------------------------
(* Inputs *)

RECURSIVE Texts(_, _)
\* all texts over the characters cs of length 0..n
Texts(cs, n) ==
    IF n = 0 THEN {<<>>}
    ELSE LET shorter == Texts(cs, n - 1)
         IN  shorter \cup {Append(t, c) : t \in shorter, c \in cs}

\* The fragment lists a lexer may hand in for a line: one fragment, or the
\* line split after its first character into two styles.
Fragmentations(text) ==
    IF text = <<>> THEN {<<>>}
    ELSE {<< <<<<"x">>, text>> >>}
         \cup (IF Len(text) >= 2
               THEN {<< <<<<"x">>, SubSeq(text, 1, 1)>>,
                        <<<<"y">>, SubSeq(text, 2, Len(text))>> >>}
               ELSE {})

\* The document around a rendered line: the line itself as row 0, or as
\* row 1 after a first line "a".
DocText(line, lineno) ==
    IF lineno = 0 THEN line ELSE <<"a", "\n">> \o line

NoSelection(lineno) == [r \in 1..(lineno + 1) |-> NoRange]

EmptyCache == [data |-> {}, keys |-> <<>>]

----------------------------------------------------------------------------
(* Merged processors: specification SpecMerge *)

MergeLeaves ==
    {HighlightSelectionProcessor, PasswordProcessor("*"),
     TabsProcessor(2), BeforeInput(<< <<<<"p">>, <<">">>>> >>)}

\* The three arrangements of the same stages.
Arrange(shape, ps) ==
    CASE shape = "flat" -> merge_processors(ps)
      [] shape = "right" ->
            IF Len(ps) < 3 THEN merge_processors(ps)
            ELSE merge_processors(<<ps[1], merge_processors(<<ps[2], ps[3]>>)>>)
      [] shape = "left" ->
            IF Len(ps) < 3 THEN merge_processors(ps)
            ELSE merge_processors(<<merge_processors(<<ps[1], ps[2]>>), ps[3]>>)

\* The prompt a BeforeInput stage of an enclosing merge has put in front.
Prompt == << <<<<"p">>, <<">">>>> >>

\* What a merged processor is called with: by the BufferControl with the
\* identity mapping and the line's fragments, or as a sub-stage of an
\* enclosing merge after a stage that inserted Prompt.
MergeInputs ==
    {TransformationInput(IdleApp, IdleControl,
        Document(DocText(line, lineno), 0,
                 [NoSelection(lineno) EXCEPT ![lineno + 1] = sel]),
        lineno,
        IF prompted THEN ShiftBy(fragment_list_len(Prompt)) ELSE Identity,
        (IF prompted THEN Prompt ELSE <<>>)
            \o (CHOOSE fr \in Fragmentations(line) : Len(fr) <= 1))
     : line \in Texts({"a", "\t"}, MaxLen), lineno \in {0, 1},
       prompted \in BOOLEAN, sel \in {NoRange, <<0, 1>>}}

InitMerge ==
    /\ ti \in MergeInputs
    /\ proc = None
    /\ out = None
    /\ pc = "new"
    /\ cache = EmptyCache
    /\ scanned = FALSE
    /\ heap = <<>>
    /\ calls = <<>>
    /\ passes = <<>>

\* merge_processors(processors), possibly of merged processors
MergeConstruct ==
    /\ pc = "new"
    /\ \E n \in 1..3 : \E ps \in [1..n -> MergeLeaves] :
         \E shape \in {"flat", "left", "right"} :
            /\ (n < 3 => shape = "flat")
            /\ proc' = Arrange(shape, ps)
    /\ pc' = "ready"
    /\ UNCHANGED <<ti, out, cache, scanned, heap, calls, passes>>

\* one render call on the constructed processor
ApplyTransformation ==
    /\ pc = "ready"
    /\ out' = Apply(proc, ti)
    /\ pc' = "applied"
    /\ UNCHANGED <<ti, proc, cache, scanned, heap, calls, passes>>

NextMerge == MergeConstruct \/ ApplyTransformation

SpecMerge == InitMerge /\ [][NextMerge]_vars


----------------------------------------------------------------------------
(* Single processors: specification Spec.  A processor is constructed once *)
(* and then asked to render lines.                                         *)

\* The lines over chars, each with the ways it comes as fragments.
FragmentedLines(chars) ==
    UNION {{<<l, f>> : f \in Fragmentations(l)} : l \in Texts(chars, MaxLen)}

\* What the BufferControl hands a processor that is its whole
\* input_processor: the line's fragments and the identity mapping.
PlainInputs(chars) ==
    {TransformationInput(IdleApp, IdleControl,
        Document(DocText(line, lineno), 0, NoSelection(lineno)),
        lineno, Identity, fr)
     : <<line, fr>> \in FragmentedLines(chars), lineno \in {0, 1}}

\* What selection_range_at_line may report for a line of n characters.
SelectionRanges(n) ==
    {NoRange} \cup {r \in (0..n) \X (0..n) : r[1] <= r[2]}

\* Lines with a selection reported on the rendered row, rendered directly or
\* after a stage that inserted Prompt.
SelectionInputs ==
    {TransformationInput(IdleApp, IdleControl,
        Document(DocText(line, lineno), 0,
                 [NoSelection(lineno) EXCEPT ![lineno + 1] = sel]),
        lineno,
        IF prompted THEN ShiftBy(fragment_list_len(Prompt)) ELSE Identity,
        (IF prompted THEN Prompt ELSE <<>>) \o fr)
     : <<line, fr, sel>> \in
          UNION {{<<lf[1], lf[2], r>> : r \in SelectionRanges(Len(lf[1]))}
                 : lf \in FragmentedLines({"a", "b"})},
       lineno \in {0, 1}, prompted \in BOOLEAN}

\* Lines rendered while a search is or was active; the cursor is on the
\* rendered row (row 0) at some column, or on another row; the line comes
\* directly or after a stage that inserted Prompt.
SearchInputs ==
    {TransformationInput(App(0, done),
        BufferControl(sb, SearchState(st, ic)),
        Document(line \o <<"\n", "b">>, cur, NoSelection(1)),
        0,
        IF prompted THEN ShiftBy(fragment_list_len(Prompt)) ELSE Identity,
        (IF prompted THEN Prompt ELSE <<>>)
            \o (CHOOSE fr \in Fragmentations(line) : Len(fr) <= 1))
     : <<line, cur>> \in {<<l, c>> \in Texts({"a", "A", "b"}, MaxLen) \X (0..(MaxLen + 1)) :
                             c <= Len(l) + 1},
       done \in BOOLEAN, ic \in BOOLEAN, prompted \in BOOLEAN,
       sb \in {None, SearchBuffer(<<>>), SearchBuffer(<<"a">>)},
       st \in {<<>>, <<"a">>, <<"a", "a">>, <<"A", "b">>}}

InputsFor(p) ==
    CASE p.kind = "BeforeInput" -> PlainInputs({"a", "b"})
      [] p.kind = "PasswordProcessor" -> PlainInputs({"a", "b"})
      [] p.kind = "TabsProcessor" -> PlainInputs({"a", "b", "\t"})
      [] p.kind = "HighlightSelectionProcessor" -> SelectionInputs
      [] p.kind = "HighlightSearchProcessor" -> SearchInputs
      [] OTHER -> {}

\* The fragment lists get_text_fragments may return: up to two fragments
\* whose texts have at most MaxPrefix characters in all.
Prefixes ==
    {<<>>}
    \cup {<< <<<<"p">>, a>> >> : a \in Texts({">"}, MaxPrefix)}
    \cup {<< <<<<"p">>, a>>, <<<<"q">>, b>> >> :
            <<a, b>> \in {<<x, y>> \in Texts({">"}, MaxPrefix) \X Texts({":"}, MaxPrefix) :
                            Len(x) + Len(y) <= MaxPrefix}}

\* The document the bracket processor is shown over several render passes
\* (SpecBracket renders every short document once).
BracketTexts ==
    {<<"(", "\n", ")">>}

\* The lines of document d as the lexer hands them over: one fragment each.
LineFragments(document, row) ==
    CHOOSE fr \in Fragmentations(DocLine(document, row)) : Len(fr) <= 1

Init ==
    /\ ti \in {TransformationInput(IdleApp, IdleControl,
                   Document(text, 0, NoSelection(line_count(Document(text, 0, <<>>)) - 1)),
                   0, Identity, <<>>) : text \in BracketTexts}
    /\ proc = None
    /\ out = None
    /\ pc = "new"
    /\ cache = EmptyCache
    /\ scanned = FALSE
    /\ heap = <<>>
    /\ calls = <<>>
    /\ passes = <<>>

\* BeforeInput.__init__: assert callable(get_text_fragments)
ConstructBeforeInput ==
    /\ pc = "new"
    /\ \E fr \in Prefixes : proc' = BeforeInput(fr)
    /\ pc' = "ready"
    /\ UNCHANGED <<ti, out, cache, scanned, heap, calls, passes>>

\* PasswordProcessor.__init__
ConstructPassword ==
    /\ pc = "new"
    /\ \E c \in {"*", "#"} : proc' = PasswordProcessor(c)
    /\ pc' = "ready"
    /\ UNCHANGED <<ti, out, cache, scanned, heap, calls, passes>>

\* TabsProcessor.__init__: assert isinstance(tabstop, Integer), no check of
\* the value.
ConstructTabs ==
    /\ pc = "new"
    /\ \E tabstop \in (-1)..MaxTabstop : proc' = TabsProcessor(tabstop)
    /\ pc' = "ready"
    /\ UNCHANGED <<ti, out, cache, scanned, heap, calls, passes>>

ConstructSelection ==
    /\ pc = "new"
    /\ proc' = HighlightSelectionProcessor
    /\ pc' = "ready"
    /\ UNCHANGED <<ti, out, cache, scanned, heap, calls, passes>>

\* HighlightSearchProcessor.__init__
ConstructSearch ==
    /\ pc = "new"
    /\ \E pv \in BOOLEAN : proc' = HighlightSearchProcessor(pv)
    /\ pc' = "ready"
    /\ UNCHANGED <<ti, out, cache, scanned, heap, calls, passes>>

\* HighlightMatchingBracketProcessor.__init__: chars and max_cursor_distance
\* are stored as given, with an empty cache.  (SpecBracket varies the
\* characters and the distance.)
ConstructBracket ==
    /\ pc = "new"
    /\ \E cfg \in {<<<<"(", ")">>, 2>>, <<<<>>, 2>>} :
          proc' = HighlightMatchingBracketProcessor(cfg[1], cfg[2])
    /\ cache' = EmptyCache
    /\ pc' = "ready"
    /\ UNCHANGED <<ti, out, scanned, heap, calls, passes>>

IsBracket == proc.kind = "HighlightMatchingBracketProcessor"

\* One render call on a processor that keeps no state between calls.
Render ==
    /\ pc = "ready"
    /\ \E t \in InputsFor(proc) :
          /\ ti' = t
          /\ out' = Apply(proc, t)
    /\ pc' = "applied"
    /\ UNCHANGED <<proc, cache, scanned, heap, calls, passes>>

\* One render call of a line of the current document on the bracket
\* processor: HighlightMatchingBracketProcessor.apply_transformation with
\* SimpleCache.get.
RenderBracket ==
    /\ pc \in {"ready", "applied"}
    /\ IsBracket
    /\ \E lineno \in 0..(line_count(ti.document) - 1) :
        LET t == TransformationInput(ti.app, ti.buffer_control, ti.document,
                     lineno, Identity, LineFragments(ti.document, lineno))
            key == PositionsKey(t)
            hit == CacheHas(cache, key)
            positions == IF hit THEN CacheValue(cache, key)
                         ELSE GetPositionsToHighlight(proc, t.document)
        IN  /\ ti' = t
            /\ scanned' = ~hit
            /\ cache' = IF hit THEN cache ELSE CacheStore(cache, key, positions)
            /\ out' = BracketApply(proc, t, positions)
    /\ pc' = "applied"
    /\ UNCHANGED <<proc, heap, calls, passes>>

\* The user moves the cursor by one character, after a render.
MoveCursor ==
    /\ pc = "applied"
    /\ IsBracket
    /\ \E c \in {ti.document.cursor_position - 1, ti.document.cursor_position + 1} :
          /\ c >= 0
          /\ c <= Len(ti.document.text)
          /\ ti' = [ti EXCEPT !.document.cursor_position = c]
    /\ pc' = "ready"
    /\ UNCHANGED <<proc, out, cache, scanned, heap, calls, passes>>

\* The renderer starts the next render pass: app.render_counter += 1.
NextRender ==
    /\ pc = "applied"
    /\ IsBracket
    /\ ti.app.render_counter < MaxRender
    /\ ti' = [ti EXCEPT !.app.render_counter = @ + 1]
    /\ pc' = "ready"
    /\ UNCHANGED <<proc, out, cache, scanned, heap, calls, passes>>

Next ==
    \/ ConstructBeforeInput
    \/ ConstructPassword
    \/ ConstructTabs
    \/ ConstructSelection
    \/ ConstructSearch
    \/ ConstructBracket
    \/ Render
    \/ RenderBracket
    \/ MoveCursor
    \/ NextRender

Spec == Init /\ [][Next]_vars

----------------------------------------------------------------------------
(* The further processors, the wrappers and chains of two stages:          *)
(* specification SpecStages.  Every render call is made on a list object   *)
(* of its own holding the line's fragments.                                *)

\* The fragment lists for a line, also with an empty last fragment (as
\* AppendAutoSuggestion leaves one when there is no suggestion).
StageFragmentations(text) ==
    Fragmentations(text)
    \cup {Append(fr, <<<<"z">>, <<>>>>) : fr \in Fragmentations(text)}

Suffix == << <<<<"s">>, <<"<">>>> >>

\* The lists buffer.multiple_cursor_positions may hold for a text of n
\* characters: up to two offsets, ascending.
CursorPositions(n) ==
    {<<>>} \cup {<<p>> : p \in 0..n}
    \cup {<<p, q>> : <<p, q>> \in {pq \in (0..n) \X (0..n) : pq[1] < pq[2]}}

\* The document around a rendered line: the line as row 0 before a row "b",
\* or as row 1 after a row "a".
TwoRows(line, lineno) ==
    IF lineno = 0 THEN line \o <<"\n", "b">> ELSE <<"a", "\n">> \o line

\* text, fragments and multiple cursor positions
CursorCases ==
    UNION {{<<lf[1], lf[2], ps>> : ps \in CursorPositions(Len(lf[1]) + 2)}
           : lf \in FragmentedLines({"a", "b"})}

\* Render calls in Vi mode, with or without a block of cursors, directly or
\* after a stage that inserted Prompt.
CursorsInputs ==
    {TransformationInput(ViApp(im), CursorsControl(Buffer(c[3])),
        Document(TwoRows(c[1], lineno), 0, NoSelection(1)),
        lineno,
        IF prompted THEN ShiftBy(fragment_list_len(Prompt)) ELSE Identity,
        (IF prompted THEN Prompt ELSE <<>>) \o c[2])
     : c \in CursorCases, lineno \in {0, 1}, im \in BOOLEAN, prompted \in BOOLEAN}

WhiteSpaceInputs ==
    {TransformationInput(IdleApp, IdleControl,
        Document(DocText(line, lineno), 0, NoSelection(lineno)),
        lineno, Identity, fr)
     : <<line, fr>> \in
          UNION {{<<l, f>> : f \in StageFragmentations(l)} : l \in Texts({"a", " "}, MaxLen)},
       lineno \in {0, 1}}

\* Render calls while the application is running or done.
WrapperInputs ==
    {TransformationInput(App(0, done), IdleControl,
        Document(DocText(line, lineno), 0, NoSelection(lineno)),
        lineno, Identity, CHOOSE fr \in Fragmentations(line) : Len(fr) <= 1)
     : line \in Texts({"a", "\t"}, MaxLen), lineno \in {0, 1}, done \in BOOLEAN}

\* What a wrapper wraps.
WrappedStages ==
    {BeforeInput(Prompt), TabsProcessor(2), PasswordProcessor("*")}

\* The context of a render call on a chain: the application done or not, a
\* search text or none, a selection or none, a block of cursors or none.
ChainContexts ==
    {<<done, st, sel, cur>> :
        done \in BOOLEAN, st \in {<<>>, <<" ">>}, sel \in {NoRange, <<0, 1>>},
        cur \in {<<FALSE, <<>>>>, <<TRUE, <<0>>>>, <<TRUE, <<1, 2>>>>}}

ChainInputs ==
    {TransformationInput(
        [render_counter |-> 0, is_done |-> c[1], insert_multiple |-> c[4][1]],
        [search_buffer |-> None, search_state |-> SearchState(c[2], FALSE),
         buffer |-> Buffer(c[4][2])],
        Document(DocText(line, lineno), 0,
                 [NoSelection(lineno) EXCEPT ![lineno + 1] = c[3]]),
        lineno, Identity, CHOOSE fr \in Fragmentations(line) : Len(fr) <= 1)
     : line \in Texts({" ", "\t"}, MaxLen), lineno \in {0, 1}, c \in ChainContexts}

ChainStages ==
    {HighlightSearchProcessor(FALSE), HighlightSelectionProcessor,
     DisplayMultipleCursors, ShowLeadingWhiteSpaceProcessor("."),
     ShowTrailingWhiteSpaceProcessor("."), BeforeInput(Prompt), AfterInput(Suffix),
     TabsProcessor(2), ConditionalProcessor(TabsProcessor(2), IsDone),
     ConditionalProcessor(BeforeInput(Prompt), Never),
     DynamicProcessor(None), DynamicProcessor(TabsProcessor(2))}

StageInputsFor(p) ==
    CASE p.kind = "DisplayMultipleCursors" -> CursorsInputs
      [] p.kind = "AfterInput" -> CursorsInputs
      [] p.kind = "ShowLeadingWhiteSpaceProcessor" -> WhiteSpaceInputs
      [] p.kind = "ShowTrailingWhiteSpaceProcessor" -> WhiteSpaceInputs
      [] p.kind = "ConditionalProcessor" -> WrapperInputs
      [] p.kind = "DynamicProcessor" -> WrapperInputs
      [] p.kind = "_MergedProcessor" -> ChainInputs

InitStages ==
    /\ ti = TransformationInput(IdleApp, IdleControl,
                Document(<<>>, 0, NoSelection(0)), 0, Identity, <<>>)
    /\ proc = None
    /\ out = None
    /\ pc = "new"
    /\ cache = EmptyCache
    /\ scanned = FALSE
    /\ heap = <<>>
    /\ calls = <<>>
    /\ passes = <<>>

ConstructDisplayMultipleCursors ==
    /\ pc = "new"
    /\ proc' = DisplayMultipleCursors
    /\ pc' = "ready"
    /\ UNCHANGED <<ti, out, cache, scanned, heap, calls, passes>>

\* AfterInput.__init__
ConstructAfterInput ==
    /\ pc = "new"
    /\ proc' = AfterInput(Suffix)
    /\ pc' = "ready"
    /\ UNCHANGED <<ti, out, cache, scanned, heap, calls, passes>>

\* ShowLeadingWhiteSpaceProcessor.__init__
ConstructShowLeadingWhiteSpace ==
    /\ pc = "new"
    /\ \E c \in {".", "~"} : proc' = ShowLeadingWhiteSpaceProcessor(c)
    /\ pc' = "ready"
    /\ UNCHANGED <<ti, out, cache, scanned, heap, calls, passes>>

\* ShowTrailingWhiteSpaceProcessor.__init__
ConstructShowTrailingWhiteSpace ==
    /\ pc = "new"
    /\ \E c \in {".", "~"} : proc' = ShowTrailingWhiteSpaceProcessor(c)
    /\ pc' = "ready"
    /\ UNCHANGED <<ti, out, cache, scanned, heap, calls, passes>>

\* ConditionalProcessor.__init__
ConstructConditional ==
    /\ pc = "new"
    /\ \E p \in WrappedStages : \E f \in {Always, Never, IsDone} :
          proc' = ConditionalProcessor(p, f)
    /\ pc' = "ready"
    /\ UNCHANGED <<ti, out, cache, scanned, heap, calls, passes>>

\* DynamicProcessor.__init__
ConstructDynamic ==
    /\ pc = "new"
    /\ \E p \in WrappedStages \cup {None} : proc' = DynamicProcessor(p)
    /\ pc' = "ready"
    /\ UNCHANGED <<ti, out, cache, scanned, heap, calls, passes>>

\* merge_processors([a, b])
ConstructChain ==
    /\ pc = "new"
    /\ \E a, b \in ChainStages : proc' = merge_processors(<<a, b>>)
    /\ pc' = "ready"
    /\ UNCHANGED <<ti, out, cache, scanned, heap, calls, passes>>

\* One render call: the caller puts the line's fragments in a list of its
\* own and calls apply_transformation.
RenderStage ==
    /\ pc = "ready"
    /\ \E t \in StageInputsFor(proc) :
          LET r == ApplyList(proc, t, <<t.fragments>>, 1, <<>>)
          IN  /\ ti' = t
              /\ out' = Apply(proc, t)
              /\ heap' = r.heap
              /\ calls' = r.calls
    /\ pc' = "applied"
    /\ UNCHANGED <<proc, cache, scanned, passes>>

NextStages ==
    \/ ConstructDisplayMultipleCursors
    \/ ConstructAfterInput
    \/ ConstructShowLeadingWhiteSpace
    \/ ConstructShowTrailingWhiteSpace
    \/ ConstructConditional
    \/ ConstructDynamic
    \/ ConstructChain
    \/ RenderStage

SpecStages == InitStages /\ [][NextStages]_vars

----------------------------------------------------------------------------
(* The bracket processor on any small document: specification SpecBracket *)

\* Documents of up to MaxLen characters with the cursor anywhere in them.
BracketDocuments ==
    {Document(text, cur, NoSelection(line_count(Document(text, 0, <<>>)) - 1))
     : <<text, cur>> \in {tc \in Texts({"(", ")", "a", "\n"}, MaxLen) \X (0..MaxLen) :
                             tc[2] <= Len(tc[1])}}

InitBracket ==
    /\ ti \in {TransformationInput(IdleApp, IdleControl, document, 0, Identity, <<>>)
               : document \in BracketDocuments}
    /\ proc = None
    /\ out = None
    /\ pc = "new"
    /\ cache = EmptyCache
    /\ scanned = FALSE
    /\ heap = <<>>
    /\ calls = <<>>
    /\ passes = <<>>

\* HighlightMatchingBracketProcessor.__init__ with any characters
ConstructBracketChars ==
    /\ pc = "new"
    /\ \E chars \in {<<"(", ")">>, <<"(">>, <<")">>, <<"a", ")">>} :
        \E max_cursor_distance \in {1, 2} :
          proc' = HighlightMatchingBracketProcessor(chars, max_cursor_distance)
    /\ cache' = EmptyCache
    /\ pc' = "ready"
    /\ UNCHANGED <<ti, out, scanned, heap, calls, passes>>

NextBracket == ConstructBracketChars \/ RenderBracket

SpecBracket == InitBracket /\ [][NextBracket]_vars

----------------------------------------------------------------------------
(* ReverseSearchProcessor._content: the filter of the main control's       *)
(* input processor.  Specification SpecFilter.                             *)

\* Bound: the number of processors in a merged processor.
MaxChildren == 2

\* all sequences over S of length 1..n
RECURSIVE Chains(_, _)
Chains(S, n) ==
    IF n = 0 THEN {}
    ELSE {<<x>> : x \in S}
         \cup {Append(c, x) : c \in Chains(S, n - 1), x \in S}

FilterLeaves ==
    {PasswordProcessor("*"), TabsProcessor(2), DisplayMultipleCursors,
     HighlightSearchProcessor(FALSE), HighlightSelectionProcessor,
     BeforeInput(Prompt), AfterInput(Suffix)}

\* What a merged input processor may hold: stages, stages under a
\* condition, merged processors and merged processors under a condition.
FilterNodes ==
    FilterLeaves
    \cup {ConditionalProcessor(p, IsDone) : p \in FilterLeaves}
    \cup {merge_processors(ps) :
            ps \in Chains({TabsProcessor(2), PasswordProcessor("*"),
                           HighlightSearchProcessor(FALSE)}, MaxChildren)}
    \cup {ConditionalProcessor(merge_processors(ps), Always) :
            ps \in Chains({TabsProcessor(2), BeforeInput(Prompt)}, 2)}

\* main_control.input_processor: one of these, or one or two of them merged
InputProcessors ==
    FilterNodes \cup {merge_processors(ps) : ps \in Chains(FilterNodes, 2)}

InitFilter ==
    /\ ti = TransformationInput(IdleApp, IdleControl,
                Document(<<>>, 0, NoSelection(0)), 0, Identity, <<>>)
    /\ proc \in InputProcessors
    /\ out = None
    /\ pc = "ready"
    /\ cache = EmptyCache
    /\ scanned = FALSE
    /\ heap = <<>>
    /\ calls = <<>>
    /\ passes = <<>>

\* filtered_processor = filter_processor(main_control.input_processor)
FilterProcessor ==
    /\ pc = "ready"
    /\ out' = filter_processor(proc)
    /\ pc' = "filtered"
    /\ UNCHANGED <<ti, proc, cache, scanned, heap, calls, passes>>

\* new_processor: the filtered processor followed by the search highlight
BuildNewProcessor ==
    /\ pc = "filtered"
    /\ out' = NewProcessor(out)
    /\ pc' = "built"
    /\ UNCHANGED <<ti, proc, cache, scanned, heap, calls, passes>>

NextFilter == FilterProcessor \/ BuildNewProcessor

SpecFilter == InitFilter /\ [][NextFilter]_vars

----------------------------------------------------------------------------
(* The search toolbar's control with a ReverseSearchProcessor in its input *)
(* processor: specification SpecReverse.                                   *)

SearchId == [obj |-> "search"]
MainId == [obj |-> "main"]
OtherId == [obj |-> "other"]

\* What the user typed into the search field: nothing, "a", or "a" and a
\* second line.
Queries == {<<>>, <<"a">>, <<"a", "\n", "b">>}

\* The control that hosts the search field, before an input processor is
\* set and before a search is started.
SearchControl(query, direction) ==
    ControlObject(SearchId,
        SearchedBuffer(Document(query, 0, NoSelection(2)),
                       Document(query, 0, NoSelection(2))),
        None, FALSE, None, None,
        DirectedSearchState(IF query = <<>> THEN <<>> ELSE <<query[1]>>,
                            FALSE, direction))

\* The input processor of the search field's control.
HostChains ==
    {ReverseSearchProcessor,
     merge_processors(<<BeforeInput(Prompt), ReverseSearchProcessor>>),
     merge_processors(<<ReverseSearchProcessor, ReverseSearchProcessor>>),
     ConditionalProcessor(ReverseSearchProcessor, Always),
     ConditionalProcessor(ReverseSearchProcessor, IsDone),
     DynamicProcessor(ReverseSearchProcessor)}

\* The input processor of the control that is searched.
MainChains ==
    {TabsProcessor(2),
     ReverseSearchProcessor,
     merge_processors(<<TabsProcessor(2), ReverseSearchProcessor>>),
     merge_processors(<<BeforeInput(Prompt), ReverseSearchProcessor>>),
     merge_processors(<<ReverseSearchProcessor, ReverseSearchProcessor>>),
     ConditionalProcessor(ReverseSearchProcessor, Always),
     DynamicProcessor(ReverseSearchProcessor),
     merge_processors(<<ConditionalProcessor(
                            merge_processors(<<ReverseSearchProcessor,
                                               PasswordProcessor("*")>>), Always),
                        TabsProcessor(2)>>)}

\* The buffer that is searched: one line or two, the match on either row.
MainBuffers ==
    {SearchedBuffer(Document(text, 0, NoSelection(2)),
                    Document(text, cur, NoSelection(2)))
     : <<text, cur>> \in {<< <<"a", "b">>, 0 >>, << <<"a", "b">>, 1 >>,
                          << <<"b", "\n", "a", "\t">>, 2 >>,
                          << <<"a", "\n", "b">>, 0 >>}}

\* What app.layout.previous_control can be while `host` has the focus: no
\* control, a control that is no BufferControl, or a BufferControl whose
\* search field is host, another control or none; the last may be host
\* itself.
PreviousControls(host) ==
    {None, [kind |-> "FormattedTextControl", id |-> OtherId]}
    \cup {ControlObject(MainId, buffer, chain, FALSE, sbc, None, host.search_state)
          : buffer \in MainBuffers, chain \in MainChains,
            sbc \in {host.id, OtherId, None}}
    \cup {[host EXCEPT !.search_buffer_control = host.id]}

InitReverse ==
    /\ ti \in {TransformationInput(LayoutApp(None, done), SearchControl(query, direction),
                   Document(query, 0, NoSelection(2)), 0, Identity, <<>>)
               : query \in Queries, direction \in {"FORWARD", "BACKWARD"},
                 done \in BOOLEAN}
    /\ proc = None
    /\ out = None
    /\ pc = "new"
    /\ cache = EmptyCache
    /\ scanned = FALSE
    /\ heap = <<>>
    /\ calls = <<>>
    /\ passes = <<>>

\* BufferControl(..., input_processor=...) of the search field
ConstructReverse ==
    /\ pc = "new"
    /\ \E chain \in HostChains :
          /\ proc' = chain
          /\ ti' = [ti EXCEPT !.buffer_control.input_processor = chain]
    /\ pc' = "ready"
    /\ UNCHANGED <<out, cache, scanned, heap, calls, passes>>

\* The focus moves to the search field: the control that had it becomes
\* app.layout.previous_control.  When that is the search field's own control
\* it is its own search_buffer_control.
StartSearch ==
    /\ pc = "ready"
    /\ ti.app.layout.previous_control = None
    /\ \E prev \in PreviousControls(ti.buffer_control) \ {None} :
          ti' = [ti EXCEPT !.app.layout.previous_control = prev,
                           !.buffer_control =
                               IF prev.id = SearchId THEN prev ELSE @]
    /\ UNCHANGED <<proc, out, pc, cache, scanned, heap, calls, passes>>

\* The search field's control renders one of its lines.
RenderReverse ==
    /\ pc = "ready"
    /\ \E lineno \in 0..(line_count(ti.buffer_control.buffer.document) - 1) :
          LET t == ContentInput(ti.buffer_control, ti.app, lineno)
          IN  /\ ti' = t
              /\ out' = Apply(proc, t)
              /\ passes' = PassesOf(proc, t)
    /\ pc' = "applied"
    /\ UNCHANGED <<proc, cache, scanned, heap, calls>>

NextReverse == ConstructReverse \/ StartSearch \/ RenderReverse

SpecReverse == InitReverse /\ [][NextReverse]_vars

----------------------------------------------------------------------------
(* C1, C2 *)

IsMergedCall == pc = "applied" /\ proc.kind = "_MergedProcessor"

\* What the direct sub-stages of proc returned during the call on ti, each
\* applied to what the merged processor handed it.
SubResults ==
    LET inputs == MergedRun(proc, ti).inputs
    IN  [k \in 1..Len(inputs) |-> Apply(proc.processors[k], inputs[k])]

\* Sk.s2d(...S1.s2d(i)) for the results subs
RECURSIVE ForwardThrough(_, _, _)
ForwardThrough(subs, k, i) ==
    IF k = 0 THEN Ok(i)
    ELSE LET r == ForwardThrough(subs, k - 1, i)
         IN  IF r.ok THEN Call(subs[k].source_to_display, r.v) ELSE r

\* Sk.d2s(...Sn.d2s(j)) for the results subs
RECURSIVE BackwardThrough(_, _, _)
BackwardThrough(subs, k, j) ==
    IF k > Len(subs) THEN Ok(j)
    ELSE LET r == BackwardThrough(subs, k + 1, j)
         IN  IF r.ok THEN Call(subs[k].display_to_source, r.v) ELSE r

\* C1: the Transformation a merged processor returns maps source to display
\* by Sn.s2d(...S1.s2d(i)) and display to source by S1.d2s(...Sn.d2s(j)),
\* without the caller's incoming source_to_display, and its fragments are
\* those the last sub-stage returned.
C1_CompositionLaw ==
    (IsMergedCall /\ out.exc = "") =>
        LET subs == SubResults
            n == Len(proc.processors)
        IN  /\ Len(subs) = n
            /\ \A i \in 0..MaxOff :
                /\ Call(out.source_to_display, i) = ForwardThrough(subs, n, i)
                /\ Call(out.display_to_source, i) = BackwardThrough(subs, 1, i)
            /\ out.fragments = subs[n].fragments

\* A merged call with a shifting caller mapping, over a prefix insertion and
\* a tab expansion whose mappings do not commute.
C1_Witness ==
    /\ IsMergedCall
    /\ out.exc = ""
    /\ ti.source_to_display # Identity
    /\ \E a, b \in 1..Len(proc.processors) :
          /\ a < b
          /\ proc.processors[a].kind = "BeforeInput"
          /\ proc.processors[b].kind = "TabsProcessor"
    /\ ti.lineno = 0
    /\ \E k \in 1..Len(ti.fragments) : \E c \in 1..Len(ti.fragments[k][2]) :
          ti.fragments[k][2][c] = "\t"
    /\ Call(out.source_to_display, 1) # Ok(1)
    /\ Call(out.display_to_source, 2) # Call(out.display_to_source, 3)

\* The leaf stages of a tree of merged processors, in order.
RECURSIVE Flatten(_)
RECURSIVE FlattenAll(_)
FlattenAll(ps) ==
    IF ps = <<>> THEN <<>> ELSE Flatten(ps[1]) \o FlattenAll(Tail(ps))
Flatten(p) ==
    IF p.kind = "_MergedProcessor" THEN FlattenAll(p.processors) ELSE <<p>>

\* What every leaf stage is handed when p is applied to t, in call order.
RECURSIVE LeafInputs(_, _)
RECURSIVE LeafInputsFrom(_, _, _)
LeafInputsFrom(p, inputs, k) ==
    IF k > Len(inputs) THEN <<>>
    ELSE LeafInputs(p.processors[k], inputs[k]) \o LeafInputsFrom(p, inputs, k + 1)
LeafInputs(p, t) ==
    IF p.kind = "_MergedProcessor"
    THEN LeafInputsFrom(p, MergedRun(p, t).inputs, 1)
    ELSE <<t>>

SameMapping(f, g) == \A i \in 0..MaxOff : Call(f, i) = Call(g, i)

SameInput(a, b) ==
    /\ a.fragments = b.fragments
    /\ a.lineno = b.lineno
    /\ a.document = b.document
    /\ a.app = b.app
    /\ a.buffer_control = b.buffer_control
    /\ SameMapping(a.source_to_display, b.source_to_display)

IsNested ==
    \E k \in 1..Len(proc.processors) : proc.processors[k].kind = "_MergedProcessor"

\* C2: a nested arrangement merge([A, merge([B, C])]) or
\* merge([merge([A, B]), C]) gives the fragments, the source_to_display and
\* the display_to_source of the flat merge([A, B, C]), and hands every leaf
\* stage the same accumulated input.
C2_NestingEquivalence ==
    (IsMergedCall /\ IsNested) =>
        LET flat == merge_processors(Flatten(proc))
            f == Apply(flat, ti)
            nested_in == LeafInputs(proc, ti)
            flat_in == LeafInputs(flat, ti)
        IN  /\ out.exc = f.exc
            /\ out.fragments = f.fragments
            /\ SameMapping(out.source_to_display, f.source_to_display)
            /\ SameMapping(out.display_to_source, f.display_to_source)
            /\ Len(nested_in) = Len(flat_in)
            /\ \A k \in 1..Len(flat_in) : SameInput(nested_in[k], flat_in[k])

\* A nested call whose inner merge holds a position-changing stage followed
\* by a stage that reads its input mapping.
C2_Witness ==
    /\ IsMergedCall
    /\ IsNested
    /\ out.exc = ""
    /\ Len(proc.processors) = 2
    /\ proc.processors[1].kind = "BeforeInput"
    /\ proc.processors[2].kind = "_MergedProcessor"
    /\ proc.processors[2].processors[1].kind = "TabsProcessor"
    /\ proc.processors[2].processors[2].kind = "HighlightSelectionProcessor"
    /\ ti.lineno = 0
    /\ selection_range_at_line(ti.document, 0) = <<0, 1>>
    /\ Len(out.fragments) >= 3
    /\ Call(out.source_to_display, 1) # Ok(1)

----------------------------------------------------------------------------
(* C3 .. C8 *)

IsCall(kind) == pc = "applied" /\ proc.kind = kind

\* The text of a fragment list and the style of each of its characters,
\* counted off fragment by fragment.
TextOf(fragments) == fragment_list_to_text(fragments)

RECURSIVE StyleAt(_, _)
\* style of the character at offset k (0-based) of the fragment list
StyleAt(fragments, k) ==
    IF k < Len(fragments[1][2]) THEN fragments[1][1]
    ELSE StyleAt(Tail(fragments), k - Len(fragments[1][2]))

IsIdentity(f) == \A i \in 0..MaxOff : Call(f, i) = Ok(i)

\* C3: BeforeInput whose fragments have total text length L returns, on
\* line 0, the prefix followed by the input, source_to_display(i) = i + L and
\* display_to_source(i + L) = i; on any other line the input fragments and
\* identity mappings.
C3_BeforeInputShift ==
    IsCall("BeforeInput") =>
        LET L == Len(TextOf(proc.get_text_fragments))
        IN  /\ out.exc = ""
            /\ IF ti.lineno = 0
               THEN /\ out.fragments = proc.get_text_fragments \o ti.fragments
                    /\ \A i \in 0..MaxOff :
                          /\ Call(out.source_to_display, i) = Ok(i + L)
                          /\ Call(out.display_to_source, i + L) = Ok(i)
               ELSE /\ out.fragments = ti.fragments
                    /\ IsIdentity(out.source_to_display)
                    /\ IsIdentity(out.display_to_source)

\* A prefix of one fragment with two characters in front of a line.
C3_Witness ==
    /\ IsCall("BeforeInput")
    /\ ti.lineno = 0
    /\ Len(proc.get_text_fragments) = 1
    /\ Len(TextOf(proc.get_text_fragments)) = 2
    /\ Len(TextOf(ti.fragments)) >= 2
    /\ Call(out.source_to_display, 1) = Ok(3)
    /\ Len(TextOf(out.fragments)) = Len(TextOf(ti.fragments)) + 2

\* C4 (as claimed): for the stages that change positions, both mappings
\* return a non-negative index, without raising, for every offset >= 0.
C4_MappingsTotalAndClamped ==
    (/\ pc = "applied"
     /\ \/ proc.kind = "BeforeInput"
        \/ (proc.kind = "TabsProcessor" /\ proc.tabstop >= 1)
     /\ out.exc = "") =>
        \A i \in 0..MaxOff :
            /\ Call(out.source_to_display, i).ok
            /\ Call(out.source_to_display, i).v >= 0
            /\ Call(out.display_to_source, i).ok
            /\ Call(out.display_to_source, i).v >= 0

\* The display column of source offset i: one column per character, a tab
\* reaching to the next multiple of tabstop.
RECURSIVE DisplayColumn(_, _, _)
DisplayColumn(text, i, tabstop) ==
    IF i = 0 THEN 0
    ELSE LET p == DisplayColumn(text, i - 1, tabstop)
         IN  IF text[i] = "\t" THEN ((p \div tabstop) + 1) * tabstop ELSE p + 1

\* C5: for tab expansion of a line of n characters, source_to_display(i) is
\* the display column of source offset i for i in 0..n and strictly
\* increasing, display_to_source(source_to_display(i)) = i, and a column
\* strictly inside a tab's filler maps back to the tab; for "a<TAB>b" with
\* width 4 the columns are 0, 1, 4 and display_to_source(2) = 1,
\* display_to_source(4) = 2.
C5_TabsRoundTrip ==
    (IsCall("TabsProcessor") /\ proc.tabstop >= 1) =>
        LET text == TextOf(ti.fragments)
            n == Len(text)
            col(i) == DisplayColumn(text, i, proc.tabstop)
        IN  /\ out.exc = ""
            /\ \A i \in 0..n :
                  /\ Call(out.source_to_display, i) = Ok(col(i))
                  /\ Call(out.display_to_source, col(i)) = Ok(i)
                  /\ i < n => col(i) < col(i + 1)
                  /\ (i < n /\ text[i + 1] = "\t") =>
                        \A d \in (col(i) + 1)..(col(i + 1) - 1) :
                            Call(out.display_to_source, d) = Ok(i)
            /\ (text = <<"a", "\t", "b">> /\ proc.tabstop = 4) =>
                  /\ Call(out.source_to_display, 0) = Ok(0)
                  /\ Call(out.source_to_display, 1) = Ok(1)
                  /\ Call(out.source_to_display, 2) = Ok(4)
                  /\ Call(out.display_to_source, 2) = Ok(1)
                  /\ Call(out.display_to_source, 4) = Ok(2)

\* "a<TAB>b" expanded with tab width 4.
C5_Witness ==
    /\ IsCall("TabsProcessor")
    /\ proc.tabstop = 4
    /\ TextOf(ti.fragments) = <<"a", "\t", "b">>
    /\ out.exc = ""
    /\ Call(out.display_to_source, 2) = Ok(1)
    /\ Call(out.source_to_display, 2) = Ok(4)

\* C6 (as claimed): no render call is reached on a TabsProcessor with a
\* non-positive tab width or on a bracket processor with an empty character
\* set, because the constructor rejects them.
C6_RejectedAtConstruction ==
    pc = "applied" =>
        /\ proc.kind = "TabsProcessor" => proc.tabstop >= 1
        /\ proc.kind = "HighlightMatchingBracketProcessor" => proc.chars # <<>>

\* C7: password masking, search highlight, selection highlight of a
\* non-empty line and bracket matching return identity mappings and keep the
\* length of the line; password masking keeps the number of fragments, every
\* style and every text length, and every character becomes the mask.
C7_RestylingIdentity ==
    (/\ pc = "applied"
     /\ \/ proc.kind \in {"PasswordProcessor", "HighlightSearchProcessor",
                          "HighlightMatchingBracketProcessor"}
        \/ (proc.kind = "HighlightSelectionProcessor" /\ TextOf(ti.fragments) # <<>>)) =>
        /\ out.exc = ""
        /\ IsIdentity(out.source_to_display)
        /\ IsIdentity(out.display_to_source)
        /\ Len(TextOf(out.fragments)) = Len(TextOf(ti.fragments))
        /\ proc.kind = "PasswordProcessor" =>
              /\ Len(out.fragments) = Len(ti.fragments)
              /\ \A k \in 1..Len(ti.fragments) :
                    /\ out.fragments[k][1] = ti.fragments[k][1]
                    /\ Len(out.fragments[k][2]) = Len(ti.fragments[k][2])
                    /\ \A c \in 1..Len(out.fragments[k][2]) :
                          out.fragments[k][2][c] = proc.char

\* A line of two fragments and three characters masked.
C7_Witness ==
    /\ IsCall("PasswordProcessor")
    /\ Len(ti.fragments) = 2
    /\ Len(TextOf(ti.fragments)) = 3
    /\ TextOf(out.fragments) = <<"#", "#", "#">>
    /\ out.fragments # ti.fragments

\* C8: with a selection (from, to) on the rendered line exactly the existing
\* display offsets k with source_to_display(from) <= k <= source_to_display(to)
\* get the "selected" tag, text and other tags staying; an empty line with
\* both mapped ends 0 becomes one space tagged "selected"; without a
\* selection the fragments are returned unchanged.
C8_SelectionRange ==
    IsCall("HighlightSelectionProcessor") =>
        LET sel == selection_range_at_line(ti.document, ti.lineno)
            n == Len(TextOf(ti.fragments))
        IN  /\ out.exc = ""
            /\ IF sel = NoRange THEN out.fragments = ti.fragments
               ELSE LET from_ == Call(ti.source_to_display, sel[1]).v
                        to == Call(ti.source_to_display, sel[2]).v
                    IN  IF n = 0 /\ from_ = 0 /\ to = 0
                        THEN out.fragments = << <<<<" class:selected ">>, <<" ">>>> >>
                        ELSE /\ TextOf(out.fragments) = TextOf(ti.fragments)
                             /\ \A k \in 0..(n - 1) :
                                   StyleAt(out.fragments, k) =
                                      IF from_ <= k /\ k <= to
                                      THEN Append(StyleAt(ti.fragments, k), " class:selected ")
                                      ELSE StyleAt(ti.fragments, k)

\* A selection whose mapped end lies past the end of a prompted line of two
\* styles: the tail of the line is tagged, the prompt is not.
C8_Witness ==
    /\ IsCall("HighlightSelectionProcessor")
    /\ ti.source_to_display # Identity
    /\ selection_range_at_line(ti.document, ti.lineno) = <<1, 3>>
    /\ Len(TextOf(ti.fragments)) = 4
    /\ Len(ti.fragments) = 3
    /\ StyleAt(out.fragments, 0) = <<"p">>
    /\ StyleAt(out.fragments, 1) = <<"x">>
    /\ StyleAt(out.fragments, 2) = <<"y", " class:selected ">>
    /\ StyleAt(out.fragments, 3) = <<"y", " class:selected ">>

----------------------------------------------------------------------------
(* C9, C10 *)

\* A step that is a render call on the bracket processor.
IsBracketRender == IsBracket /\ pc' = "applied"

\* C9: a render call on the bracket processor whose key (render counter,
\* document text, cursor offset) is still cached uses the cached position
\* list and runs no scan; a call whose key is not cached runs the scan and
\* caches its result under its own key; either way the positions used for
\* tagging are those a fresh scan of the current document yields.
C9_BracketCacheCoherence ==
    [][IsBracketRender =>
          LET key == <<ti'.app.render_counter, ti'.document.text,
                       ti'.document.cursor_position>>
              fresh == GetPositionsToHighlight(proc, ti'.document)
          IN  /\ CacheHas(cache, key) =>
                    /\ ~scanned'
                    /\ cache' = cache
                    /\ out' = BracketApply(proc, ti', CacheValue(cache, key))
              /\ ~CacheHas(cache, key) =>
                    /\ scanned'
                    /\ CacheHas(cache', key)
                    /\ CacheValue(cache', key) = fresh
              /\ out' = BracketApply(proc, ti', fresh)
              /\ Cardinality(cache'.data) <= PositionsCacheMaxsize]_vars

\* A cache hit on a pair of brackets after the oldest keys were evicted, with
\* another cursor offset of the same render pass and text still cached.
C9_Witness ==
    /\ IsCall("HighlightMatchingBracketProcessor")
    /\ ~scanned
    /\ Len(cache.keys) = PositionsCacheMaxsize
    /\ cache.keys[1][1] >= 1
    /\ CacheValue(cache, PositionsKey(ti)) # <<>>
    /\ out.fragments # ti.fragments
    /\ \E k \in 1..Len(cache.keys) :
          /\ cache.keys[k][1] = ti.app.render_counter
          /\ cache.keys[k][3] # ti.document.cursor_position
          /\ CacheValue(cache, cache.keys[k]) # CacheValue(cache, PositionsKey(ti))

\* C10 (as claimed): with the cursor on a configured bracket whose counterpart
\* lies in the search window, the rendered line has the "cursor" variant on
\* the bracket under the cursor, the "other" variant on the counterpart, and
\* no other tag, on whichever row it is.
C10_BracketTags ==
    LET document == ti.document
        m == find_matching_bracket_position(document,
                 document.cursor_position - proc.max_cursor_distance,
                 document.cursor_position + proc.max_cursor_distance)
        cur == <<cursor_position_row(document), cursor_position_col(document)>>
        other == translate_index_to_position(document, document.cursor_position + m)
    IN  (/\ IsCall("HighlightMatchingBracketProcessor")
         /\ current_char(document) # ""
         /\ InStr(current_char(document), proc.chars)
         /\ m # 0) =>
            /\ out.exc = ""
            /\ TextOf(out.fragments) = TextOf(ti.fragments)
            /\ \A k \in 0..(Len(TextOf(ti.fragments)) - 1) :
                  StyleAt(out.fragments, k) =
                     IF <<ti.lineno, k>> = cur
                     THEN Append(StyleAt(ti.fragments, k), " class:matching-bracket.cursor ")
                     ELSE IF <<ti.lineno, k>> = other
                     THEN Append(StyleAt(ti.fragments, k), " class:matching-bracket.other ")
                     ELSE StyleAt(ti.fragments, k)

----------------------------------------------------------------------------
(* C11 *)

----------------------------------------------------------------------------
(* C12 *)

\* What the k-th sub-stage of the merged processor p, called with t, must be
\* handed, given what the earlier sub-stages returned.
RECURSIVE SubStageInputsAsClaimed(_, _)
SubStageInputsAsClaimed(p, t) ==
    LET inputs == MergedRun(p, t).inputs
        subs == [k \in 1..Len(inputs) |-> Apply(p.processors[k], inputs[k])]
    IN  \A k \in 1..Len(inputs) :
            /\ inputs[k].fragments =
                  IF k = 1 THEN t.fragments ELSE subs[k - 1].fragments
            /\ \A i \in 0..MaxOff :
                  LET c == Call(t.source_to_display, i)
                  IN  Call(inputs[k].source_to_display, i) =
                         IF c.ok THEN ForwardThrough(subs, k - 1, c.v) ELSE c
            /\ inputs[k].lineno = t.lineno
            /\ inputs[k].document = t.document
            /\ p.processors[k].kind = "_MergedProcessor" =>
                  SubStageInputsAsClaimed(p.processors[k], inputs[k])

\* C12: in a call of a merged processor, also a nested one, the k-th
\* sub-stage is handed the fragments sub-stage k-1 returned (the caller's for
\* k = 1) and a source_to_display that maps i to
\* S(k-1).s2d(...S1.s2d(caller_s2d(i))), with no mapping of sub-stage k or a
\* later one in it.
C12_SubStageInput ==
    IsMergedCall => SubStageInputsAsClaimed(proc, ti)

\* Three stages behind a caller that shifted by the prompt: the third is
\* handed a mapping through the caller's shift, the prefix insertion and the
\* tab expansion, the second one without the tab expansion.
C12_Witness ==
    /\ IsMergedCall
    /\ out.exc = ""
    /\ ti.source_to_display # Identity
    /\ ti.lineno = 0
    /\ Len(proc.processors) = 3
    /\ proc.processors[1].kind = "BeforeInput"
    /\ proc.processors[2].kind = "TabsProcessor"
    /\ proc.processors[3].kind = "HighlightSelectionProcessor"
    /\ LET inputs == MergedRun(proc, ti).inputs
       IN  /\ Len(inputs) = 3
           /\ Call(inputs[1].source_to_display, 0) = Ok(1)
           /\ Call(inputs[2].source_to_display, 0) = Ok(2)
           /\ Call(inputs[3].source_to_display, 1) = Ok(4)
           /\ inputs[3].fragments # inputs[2].fragments
           /\ inputs[2].fragments # inputs[1].fragments

----------------------------------------------------------------------------
(* C13, C14 *)

\* C13: tab expansion with tab width tabstop >= 1 of a line of n characters
\* lays the line out column by column.  With c(i) = source_to_display(i):
\* c(0) = 0; a character other than a tab is copied with its style to column
\* c(i) and c(i+1) = c(i) + 1; a tab becomes count = tabstop - (c(i) mod
\* tabstop) filler characters, 1 <= count <= tabstop, the first the tab-start
\* glyph and the others the tab-fill glyph, so that c(i+1) is a multiple of
\* tabstop; the output text has c(n) characters.
C13_TabLayout ==
    (IsCall("TabsProcessor") /\ proc.tabstop >= 1) =>
        LET text == TextOf(ti.fragments)
            n == Len(text)
            display == TextOf(out.fragments)
            c(i) == Call(out.source_to_display, i).v
        IN  /\ out.exc = ""
            /\ c(0) = 0
            /\ Len(display) = c(n)
            /\ \A i \in 0..(n - 1) :
                  IF text[i + 1] # "\t"
                  THEN /\ c(i + 1) = c(i) + 1
                       /\ display[c(i) + 1] = text[i + 1]
                       /\ StyleAt(out.fragments, c(i)) = StyleAt(ti.fragments, i)
                  ELSE LET count == c(i + 1) - c(i)
                       IN  /\ count = proc.tabstop - (c(i) % proc.tabstop)
                           /\ 1 <= count /\ count <= proc.tabstop
                           /\ c(i + 1) % proc.tabstop = 0
                           /\ display[c(i) + 1] = proc.get_char1
                           /\ \A d \in (c(i) + 1)..(c(i + 1) - 1) :
                                 display[d + 1] = proc.get_char2
                           /\ \A d \in c(i)..(c(i + 1) - 1) :
                                 StyleAt(out.fragments, d) = proc.style

\* "a<TAB><TAB>" with tab width 3: a short tab and a full one.
C13_Witness ==
    /\ IsCall("TabsProcessor")
    /\ proc.tabstop = 3
    /\ TextOf(ti.fragments) = <<"a", "\t", "\t">>
    /\ TextOf(out.fragments) = <<"a", "|", ".", "|", ".", ".">>
    /\ Call(out.source_to_display, 3) = Ok(6)

\* C14: after tab expansion with tab width >= 1 of a line of n characters,
\* display_to_source(j) for any integer j raises nothing and is the source
\* index recorded for the greatest recorded display column <= j, 0 when no
\* recorded column is <= j, n for every j at or beyond the display length;
\* it is non-decreasing in j and lies in 0..n.
C14_BackwardLookup ==
    (IsCall("TabsProcessor") /\ proc.tabstop >= 1 /\ out.exc = "") =>
        LET n == Len(TextOf(ti.fragments))
            c(i) == Call(out.source_to_display, i).v
            len == Len(TextOf(out.fragments))
            b(j) == Call(out.display_to_source, j)
        IN  \A j \in (-2)..(len + 2) :
                /\ b(j).ok
                /\ b(j).v \in 0..n
                /\ IF \E i \in 0..n : c(i) <= j
                   THEN /\ c(b(j).v) <= j
                        /\ \A i \in 0..n : c(i) <= j => c(i) <= c(b(j).v)
                   ELSE b(j).v = 0
                /\ j >= len => b(j).v = n
                /\ b(j).v <= b(j + 1).v

\* "<TAB>a<TAB>" with tab width 3: columns inside both tabs, before the line
\* and beyond it.
C14_Witness ==
    /\ IsCall("TabsProcessor")
    /\ proc.tabstop = 3
    /\ TextOf(ti.fragments) = <<"\t", "a", "\t">>
    /\ Call(out.display_to_source, -1) = Ok(0)
    /\ Call(out.display_to_source, 2) = Ok(0)
    /\ Call(out.display_to_source, 3) = Ok(1)
    /\ Call(out.display_to_source, 5) = Ok(2)
    /\ Call(out.display_to_source, 8) = Ok(3)

----------------------------------------------------------------------------
(* C15 *)

\* The start offsets of the occurrences of pat a left-to-right scan of text
\* finds: offset k is one iff pat is at k and no earlier occurrence reaches
\* over k.
Occurrences(text, pat, ignore_case) ==
    CHOOSE S \in SUBSET (0..Len(text)) :
        \A k \in 0..Len(text) :
            k \in S <=> /\ MatchesAt(text, pat, k, ignore_case)
                        /\ \A j \in S : j < k => j + Len(pat) <= k

\* C15: with a non-empty active search text (the search buffer's text when
\* previewing and it is not empty, else the search state's) and the
\* application not done, exactly the characters of the occurrences of the
\* search text in the display text get a tag: " class:search-match.current "
\* for all characters of an occurrence [s, e) when the cursor is on the
\* rendered row and s <= source_to_display(cursor column) < e,
\* " class:search-match " otherwise; the text stays.  With an empty search
\* text or the application done the fragments are returned unchanged.
C15_SearchHighlight ==
    IsCall("HighlightSearchProcessor") =>
        LET sb == ti.buffer_control.search_buffer
            pat == IF proc.preview_search /\ sb # None /\ sb.text # <<>>
                   THEN sb.text ELSE ti.buffer_control.search_state.text
            ic == ti.buffer_control.search_state.ignore_case
            text == TextOf(ti.fragments)
            S == Occurrences(text, pat, ic)
            on_row == cursor_position_row(ti.document) = ti.lineno
            col == Call(ti.source_to_display, cursor_position_col(ti.document)).v
            tag(s) == IF on_row /\ s <= col /\ col < s + Len(pat)
                      THEN " class:search-match.current "
                      ELSE " class:search-match "
        IN  /\ out.exc = ""
            /\ IF pat = <<>> \/ ti.app.is_done
               THEN out.fragments = ti.fragments
               ELSE /\ TextOf(out.fragments) = text
                    /\ \A k \in 0..(Len(text) - 1) :
                          StyleAt(out.fragments, k) =
                             IF \E s \in S : s <= k /\ k < s + Len(pat)
                             THEN LET s == CHOOSE s \in S : s <= k /\ k < s + Len(pat)
                                  IN  Append(StyleAt(ti.fragments, k), tag(s))
                             ELSE StyleAt(ti.fragments, k)

\* "aAb" behind a prompt, searched for "a" without regard to case, the
\* cursor on the second character: two occurrences, the second is current.
C15_Witness ==
    /\ IsCall("HighlightSearchProcessor")
    /\ ti.source_to_display # Identity
    /\ ~ti.app.is_done
    /\ TextOf(ti.fragments) = <<">", "a", "A", "b">>
    /\ cursor_position_col(ti.document) = 1
    /\ cursor_position_row(ti.document) = 0
    /\ StyleAt(out.fragments, 0) = <<"p">>
    /\ StyleAt(out.fragments, 1) = <<"x", " class:search-match ">>
    /\ StyleAt(out.fragments, 2) = <<"x", " class:search-match.current ">>
    /\ StyleAt(out.fragments, 3) = <<"x">>

----------------------------------------------------------------------------
(* C16 *)

\* The number of left_ch minus the number of right_ch at offsets from..to.
Balance(text, from, to, left_ch, right_ch) ==
    Cardinality({k \in from..to : text[k + 1] = left_ch})
    - Cardinality({k \in from..to : text[k + 1] = right_ch})

\* The offsets that can be the counterpart of the bracket at offset a: for an
\* opening bracket the nearest offset to the right at which the brackets of
\* its kind balance, for a closing one the nearest to the left.
Counterparts(text, a) ==
    LET ch == text[a + 1]
        n == Len(text)
    IN  IF \E k \in 1..Len(BracketPairs) : BracketPairs[k][1] = ch
        THEN LET pr == BracketPairs[CHOOSE k \in 1..Len(BracketPairs) : BracketPairs[k][1] = ch]
             IN  {m \in (a + 1)..(n - 1) :
                    /\ Balance(text, a, m, pr[1], pr[2]) = 0
                    /\ \A j \in (a + 1)..(m - 1) : Balance(text, a, j, pr[1], pr[2]) # 0}
        ELSE IF \E k \in 1..Len(BracketPairs) : BracketPairs[k][2] = ch
        THEN LET pr == BracketPairs[CHOOSE k \in 1..Len(BracketPairs) : BracketPairs[k][2] = ch]
             IN  {m \in 0..(a - 1) :
                    /\ Balance(text, m, a, pr[1], pr[2]) = 0
                    /\ \A j \in (m + 1)..(a - 1) : Balance(text, j, a, pr[1], pr[2]) # 0}
        ELSE {}

\* C16: the positions the bracket processor works with.  The anchor is the
\* offset of the cursor when the character there is a configured one; else
\* the offset before the cursor when the character there is a closing bracket
\* and configured; else there is none.  With an anchor whose counterpart lies
\* within max_cursor_distance of the anchor the list is the (row, column) of
\* the counterpart followed by that of the anchor; in every other case the
\* list is empty and the line is returned as it came.
C16_BracketAnchor ==
    IsCall("HighlightMatchingBracketProcessor") =>
        LET document == ti.document
            text == document.text
            cur == document.cursor_position
            positions == CacheValue(cache, PositionsKey(ti))
            anchors ==
                IF cur < Len(text) /\ InStr(text[cur + 1], proc.chars) THEN {cur}
                ELSE IF /\ cur >= 1
                        /\ text[cur] \in {"]", ")", "}", ">"}
                        /\ InStr(text[cur], proc.chars)
                THEN {cur - 1}
                ELSE {}
            found == {<<m, a>> \in (0..Len(text)) \X anchors :
                        /\ m \in Counterparts(text, a)
                        /\ a - proc.max_cursor_distance <= m
                        /\ m <= a + proc.max_cursor_distance}
        IN  /\ CacheHas(cache, PositionsKey(ti))
            /\ IF found = {}
               THEN positions = <<>> /\ out.fragments = ti.fragments
               ELSE \E f \in found :
                       positions = << translate_index_to_position(document, f[1]),
                                      translate_index_to_position(document, f[2]) >>

\* The cursor behind "()" at the end of the row: the anchor is the closing
\* bracket before the cursor, its counterpart the opening one.
C16_Witness ==
    /\ IsCall("HighlightMatchingBracketProcessor")
    /\ ti.document.text = <<"a", "(", ")">>
    /\ ti.document.cursor_position = 3
    /\ proc.chars = <<"(", ")">>
    /\ CacheValue(cache, PositionsKey(ti)) = << <<0, 1>>, <<0, 2>> >>
    /\ StyleAt(out.fragments, 1) # StyleAt(ti.fragments, 1)
    /\ StyleAt(out.fragments, 2) # StyleAt(ti.fragments, 2)

----------------------------------------------------------------------------
(* C17 *)

\* C17: DisplayMultipleCursors on the line at the offsets [start, end) of the
\* document raises nothing and returns identity mappings.  In the
\* block-multi-cursor mode the character at display index
\* source_to_display(p - start) gets the cursor tag for every cursor offset p
\* with start <= p < end and no other character changes; a cursor offset
\* p = end adds one fragment (cursor tag, " ") at the end of the line and
\* nothing is added otherwise.  Outside the mode the fragments are returned
\* unchanged.
C17_MultipleCursors ==
    IsCall("DisplayMultipleCursors") =>
        LET positions == ti.buffer_control.buffer.multiple_cursor_positions
            cursors == {positions[k] : k \in 1..Len(positions)}
            start == translate_row_col_to_index(ti.document, ti.lineno, 0)
            end == start + Len(DocLine(ti.document, ti.lineno))
            n == Len(TextOf(ti.fragments))
            tag == " class:multiple-cursors.cursor "
            tagged == {Call(ti.source_to_display, p - start).v :
                          p \in {q \in cursors : start <= q /\ q < end}}
        IN  /\ out.exc = ""
            /\ IsIdentity(out.source_to_display)
            /\ IsIdentity(out.display_to_source)
            /\ IF ~ti.app.insert_multiple THEN out.fragments = ti.fragments
               ELSE /\ SubSeq(TextOf(out.fragments), 1, n) = TextOf(ti.fragments)
                    /\ \A k \in 0..(n - 1) :
                          StyleAt(out.fragments, k) =
                             IF k \in tagged THEN Append(StyleAt(ti.fragments, k), tag)
                             ELSE StyleAt(ti.fragments, k)
                    /\ IF end \in cursors
                       THEN /\ Len(TextOf(out.fragments)) = n + 1
                            /\ out.fragments[Len(out.fragments)] = <<<<tag>>, <<" ">>>>
                       ELSE Len(TextOf(out.fragments)) = n

\* "ab" as row 1 behind a prompt, a cursor on its first character and one at
\* its end.
C17_Witness ==
    /\ IsCall("DisplayMultipleCursors")
    /\ ti.app.insert_multiple
    /\ ti.source_to_display # Identity
    /\ ti.lineno = 1
    /\ ti.buffer_control.buffer.multiple_cursor_positions = <<2, 4>>
    /\ TextOf(ti.fragments) = <<">", "a", "b">>
    /\ TextOf(out.fragments) = <<">", "a", "b", " ">>
    /\ StyleAt(out.fragments, 0) = <<"p">>
    /\ StyleAt(out.fragments, 1) = <<"x", " class:multiple-cursors.cursor ">>
    /\ StyleAt(out.fragments, 2) = StyleAt(ti.fragments, 2)
    /\ StyleAt(out.fragments, 3) = <<" class:multiple-cursors.cursor ">>

----------------------------------------------------------------------------
(* C18 *)

\* the number of spaces text starts with, and ends with
RECURSIVE LeadingSpaces(_)
LeadingSpaces(text) ==
    IF text # <<>> /\ text[1] = " " THEN 1 + LeadingSpaces(Tail(text)) ELSE 0

TrailingSpaces(text) == LeadingSpaces(Reverse(text))

\* C18 (as claimed): of a line whose text starts with spaces the leading
\* stage replaces each space of the leading run, and no other character, by
\* a marker fragment; of a line whose text ends with spaces the trailing
\* stage replaces each space of the trailing run, and no other character,
\* however the text is split into fragments.  The length of the line stays
\* and a line without such a run is returned unchanged.
C18_WhitespaceReveal ==
    (IsCall("ShowLeadingWhiteSpaceProcessor") \/ IsCall("ShowTrailingWhiteSpaceProcessor")) =>
        LET text == TextOf(ti.fragments)
            n == Len(text)
            leading == proc.kind = "ShowLeadingWhiteSpaceProcessor"
            run == IF leading THEN LeadingSpaces(text) ELSE TrailingSpaces(text)
            marked == IF leading THEN 0..(run - 1) ELSE (n - run)..(n - 1)
            display == TextOf(out.fragments)
        IN  /\ out.exc = ""
            /\ IF run = 0 THEN out.fragments = ti.fragments
               ELSE /\ Len(display) = n
                    /\ \A k \in 0..(n - 1) :
                          IF k \in marked
                          THEN /\ display[k + 1] = proc.get_char
                               /\ StyleAt(out.fragments, k) = proc.style
                          ELSE /\ display[k + 1] = text[k + 1]
                               /\ StyleAt(out.fragments, k) = StyleAt(ti.fragments, k)

----------------------------------------------------------------------------
(* C19 *)

IsWrapper(p) == p.kind \in {"ConditionalProcessor", "DynamicProcessor"}

\* C19: a ConditionalProcessor whose filter holds and a DynamicProcessor
\* whose get_processor returns a processor return the Transformation of that
\* processor on the same input, calling it once; a ConditionalProcessor
\* whose filter fails and a DynamicProcessor whose get_processor returns
\* None return the input fragments with identity mappings and call no
\* wrapped processor.  A merged processor with a wrapper among its stages
\* maps by Sn.s2d(...S1.s2d(i)) and S1.d2s(...Sn.d2s(j)) over what its
\* stages, wrappers included, returned, and hands every stage the mapping
\* accumulated before it.
C19_WrappersTransparent ==
    /\ IsCall("ConditionalProcessor") =>
          IF \/ proc.filter = Always
             \/ (proc.filter = IsDone /\ ti.app.is_done)
          THEN /\ out = Apply(proc.processor, ti)
               /\ Len(calls) = 2
               /\ calls[2] = <<1, ti.fragments, proc.processor.kind>>
          ELSE /\ out.exc = ""
               /\ out.fragments = ti.fragments
               /\ IsIdentity(out.source_to_display)
               /\ IsIdentity(out.display_to_source)
               /\ Len(calls) = 1
    /\ IsCall("DynamicProcessor") =>
          IF proc.get_processor # None
          THEN /\ out = Apply(proc.get_processor, ti)
               /\ Len(calls) = 2
               /\ calls[2] = <<1, ti.fragments, proc.get_processor.kind>>
          ELSE /\ out.exc = ""
               /\ out.fragments = ti.fragments
               /\ IsIdentity(out.source_to_display)
               /\ IsIdentity(out.display_to_source)
               /\ \A k \in 2..Len(calls) : calls[k][3] = "DummyProcessor"
    /\ (/\ IsMergedCall
        /\ \E k \in 1..Len(proc.processors) : IsWrapper(proc.processors[k])
        /\ out.exc = "") =>
          LET subs == SubResults
              n == Len(proc.processors)
          IN  /\ Len(subs) = n
              /\ \A i \in 0..MaxOff :
                    /\ Call(out.source_to_display, i) = ForwardThrough(subs, n, i)
                    /\ Call(out.display_to_source, i) = BackwardThrough(subs, 1, i)
              /\ out.fragments = subs[n].fragments
              /\ SubStageInputsAsClaimed(proc, ti)

\* A prefix insertion followed by a tab expansion that runs only when the
\* application is done, on a done application and a line with a tab.
C19_Witness ==
    /\ IsMergedCall
    /\ out.exc = ""
    /\ proc.processors[1].kind = "BeforeInput"
    /\ proc.processors[2] = ConditionalProcessor(TabsProcessor(2), IsDone)
    /\ ti.app.is_done
    /\ ti.lineno = 0
    /\ TextOf(ti.fragments) = <<"\t", " ">>
    /\ TextOf(out.fragments) = <<">", "|", " ">>
    /\ Call(out.source_to_display, 1) = Ok(2)
    /\ Call(out.display_to_source, 2) = Ok(1)
    /\ Len(calls) = 4

----------------------------------------------------------------------------
(* C20 *)

\* The leaf stages of a tree of merged and conditional processors in their
\* order, each with the filters of the conditions around it, outermost
\* first.
RECURSIVE StagesOf(_, _)
RECURSIVE StagesOfAll(_, _)
StagesOfAll(ps, filters) ==
    IF ps = <<>> THEN <<>>
    ELSE StagesOf(ps[1], filters) \o StagesOfAll(Tail(ps), filters)
StagesOf(p, filters) ==
    IF p = None THEN <<>>
    ELSE IF p.kind = "_MergedProcessor" THEN StagesOfAll(p.processors, filters)
    ELSE IF p.kind = "ConditionalProcessor"
    THEN StagesOf(p.processor, Append(filters, p.filter))
    ELSE << <<p, filters>> >>

IsKeptStage(s) ==
    s[1].kind \notin {"HighlightSearchProcessor", "HighlightSelectionProcessor",
                      "BeforeInput", "AfterInput"}

\* C20 (as claimed): the filtered chain holds no search-highlight,
\* selection-highlight, prefix-insertion or suffix-insertion stage at any
\* depth and holds every other leaf stage of the original tree once, in the
\* original order and under its conditions, however many children of a
\* merged processor survive; the original tree stays as it was.
C20_FilteredChain ==
    pc = "filtered" =>
        LET kept == StagesOf(out, <<>>)
        IN  /\ \A k \in 1..Len(kept) : IsKeptStage(kept[k])
            /\ kept = SelectSeq(StagesOf(proc, <<>>), IsKeptStage)

----------------------------------------------------------------------------
(* C21 *)

\* The number of ReverseSearchProcessor stages in the tree p.
RECURSIVE ReverseStages(_)
RECURSIVE ReverseStagesAll(_)
ReverseStagesAll(ps) ==
    IF ps = <<>> THEN 0 ELSE ReverseStages(ps[1]) + ReverseStagesAll(Tail(ps))
ReverseStages(p) ==
    IF p = None THEN 0
    ELSE IF p.kind = "_MergedProcessor" THEN ReverseStagesAll(p.processors)
    ELSE IF p.kind = "ConditionalProcessor" THEN ReverseStages(p.processor)
    ELSE IF p.kind = "DynamicProcessor" THEN ReverseStages(p.get_processor)
    ELSE IF p.kind = "ReverseSearchProcessor" THEN 1 ELSE 0

\* An active search context: the control that had the focus before is a
\* buffer control whose search field is the control being rendered.
ActiveSearch ==
    LET prev_control == ti.app.layout.previous_control
    IN  /\ prev_control.kind = "BufferControl"
        /\ prev_control.search_buffer_control = ti.buffer_control.id

\* C21: a render call on the search field's chain ends without exhausting
\* the recursion limit; every nested render pass is started by a
\* reverse-search stage of the chain itself (depth 1) and none from within a
\* nested pass, so there is at most one nested pass per reverse-search stage
\* applied, also when the searched control's chain holds reverse-search
\* stages, bare or wrapped; outside an active search context or on a line
\* other than line 0 no nested pass is started and the reverse-search stage
\* returns its input fragments under identity mappings.
C21_ReverseSearchBounded ==
    pc = "applied" =>
        /\ out.exc # "RecursionError"
        /\ \A k \in 1..Len(passes) :
              /\ passes[k].depth = 1
              /\ passes[k].by = ti.buffer_control.id
        /\ Len(passes) <= ReverseStages(proc)
        /\ (~ActiveSearch \/ ti.lineno # 0) =>
              /\ passes = <<>>
              /\ proc.kind = "ReverseSearchProcessor" =>
                    out = Transformation(ti.fragments, None, None)

\* A render of line 0 during a search of a control whose own chain holds a
\* reverse-search stage inside a merged processor, which the filter keeps:
\* the nested pass renders row 0 and applies that stage, and one pass was
\* made.
C21_Witness ==
    /\ pc = "applied"
    /\ proc.kind = "ReverseSearchProcessor"
    /\ ActiveSearch
    /\ ti.lineno = 0
    /\ LET main_control == ti.app.layout.previous_control
           kept == NewProcessor(filter_processor(main_control.input_processor))
       IN  /\ main_control.input_processor.kind = "_MergedProcessor"
           /\ ReverseStages(main_control.input_processor) >= 1
           /\ ReverseStages(kept) >= 1
           /\ cursor_position_row(main_control.buffer.document_for_search) = 0
    /\ Len(passes) = 1
    /\ passes[1].lineno = 0
    /\ out.exc = ""
    /\ Len(out.fragments) > 5
    /\ Call(out.source_to_display, 0) = Ok(19)

====
